---- MODULE Spec2Model ----
(***************************************************************************)
(* Model of the price engine of ferreteria-mobile-apk:                     *)
(*   src/motor_precios.py      MotorPrecios (search, pricing, reload,      *)
(*                             configuration store)                        *)
(*   src/motor_mobile_lite.py  MotorMobileLite (search, pricing)           *)
(*                                                                         *)
(* Texts are sequences of one-character strings, so that lower(), strip(), *)
(* substring search and the fuzzy scorer are computed, not assumed.        *)
(* Money is counted in cents and percentages are integers, so that the     *)
(* two-decimal rounding of the price is computed exactly.                  *)
(***************************************************************************)
EXTENDS Integers, Sequences, FiniteSets, TLC

(***************************************************************************)
(* Bounds of the model.                                                    *)
(***************************************************************************)
\* Longest query typed by the user (characters, before strip()).
MaxConsulta == 4
\* Largest value of the argument `limite` of buscar_producto.
MaxLimite == 3
\* Most rows a supplier table holds.
MaxFilas == 3
\* Latest modification time a file gets.
MaxReloj == 1
\* Most changes the environment makes to the directory and the document.
MaxCambios == 1
\* Most calls of actualizar_margen() in a run.
MaxActualizaciones == 1

\* rows of a grid given to the schema inference, characters of a price cell
MaxFilasGrilla == 2
MaxPrecio == 4

\* rows of the grids the sampling is checked on
MaxFilasMuestreo == 401

\* rows of a table of a PDF page
MaxFilasTabla == 2

\* lines of text of a PDF page
MaxLineas == 2

(***************************************************************************)
(* Program constants.                                                      *)
(***************************************************************************)
\* MotorPrecios.__init__: self.margen_default = 20.0
MargenDefaultInicial == 20
\* MotorPrecios.__init__: self.umbral_fuzzy = 60
UmbralFuzzyInicial == 60
\* MotorMobileLite.__init__: self.margen_default = 30.0
LiteMargenDefaultInicial == 30
\* buscar_producto: score_busqueda of a substring hit
ScoreExacto == 100
\* buscar_producto: "if len(resultados) < 5 and len(consulta) > 3"
MinExactos == 5
LargoMinFuzzy == 3
\* buscar_producto: process.extract(..., limit=5, ...)
LimiteExtract == 5

(***************************************************************************)
(* Text: str.lower(), str.strip(), substring search.                       *)
(***************************************************************************)
Letras == {"a", "b"}
Mayusculas == {"B"}
Espacio == " "
Alfabeto == Letras \cup Mayusculas \cup {Espacio}

\* The texts a user can type, up to n characters.
Textos(n) == UNION {[1..k -> Alfabeto] : k \in 0..n}

\* str.lower() on one character
LowerChar(c) ==
  CASE c = "B" -> "b" [] c = "C" -> "c" [] c = "N" -> "n" [] OTHER -> c

\* str.lower()
Lower(s) == [i \in 1..Len(s) |-> LowerChar(s[i])]

RECURSIVE LStrip(_)
LStrip(s) == IF s # <<>> /\ s[1] = Espacio THEN LStrip(Tail(s)) ELSE s

RECURSIVE RStrip(_)
RStrip(s) ==
  IF s # <<>> /\ s[Len(s)] = Espacio THEN RStrip(SubSeq(s, 1, Len(s) - 1)) ELSE s

\* str.strip()
Strip(s) == RStrip(LStrip(s))

\* `needle in hay` / Series.str.contains(needle) for a pattern without
\* regular-expression metacharacters (the alphabet has none).
Contains(hay, needle) ==
  \E i \in 1..(Len(hay) - Len(needle) + 1) :
     SubSeq(hay, i, i + Len(needle) - 1) = needle

(***************************************************************************)
(* Arithmetic: round() to the nearest integer, ties to even.               *)
(***************************************************************************)
\* round(n / d) for d > 0, as Python's round(): nearest, ties to the even one.
RoundDiv(n, d) ==
  LET q == n \div d
      r == n % d
  IN  IF 2 * r < d THEN q
      ELSE IF 2 * r > d THEN q + 1
      ELSE IF q % 2 = 0 THEN q ELSE q + 1

Max2(a, b) == IF a >= b THEN a ELSE b

\* max() of a non-empty finite set of integers
MaxOf(S) == CHOOSE x \in S : \A y \in S : y <= x

(***************************************************************************)
(* The fuzzy scorer: thefuzz.fuzz.partial_token_sort_ratio, as called by   *)
(* buscar_producto through process.extract.  Both strings are processed    *)
(* (lower-cased, stripped), split on whitespace, their tokens sorted and   *)
(* joined by one space; the score is the best similarity                   *)
(* 100 * 2*LCS / (len1 + len2) of the shorter string against a window of   *)
(* the longer one, rounded to an integer.                                  *)
(***************************************************************************)
\* ord() of a character
Ord(c) ==
  CASE c = " " -> 32 [] c = "B" -> 66 [] c = "a" -> 97 [] c = "b" -> 98

\* s <= t for str (lexicographic)
RECURSIVE StrLeq(_, _)
StrLeq(s, t) ==
  IF s = <<>> THEN TRUE
  ELSE IF t = <<>> THEN FALSE
  ELSE IF s[1] # t[1] THEN Ord(s[1]) < Ord(t[1])
  ELSE StrLeq(Tail(s), Tail(t))

\* str.split(): the maximal runs of non-space characters, in order.
\* `cur` is the token being read.
RECURSIVE SplitFrom(_, _)
SplitFrom(s, cur) ==
  IF s = <<>> THEN (IF cur = <<>> THEN <<>> ELSE <<cur>>)
  ELSE IF s[1] = Espacio
       THEN (IF cur = <<>> THEN <<>> ELSE <<cur>>) \o SplitFrom(Tail(s), <<>>)
       ELSE SplitFrom(Tail(s), Append(cur, s[1]))

Split(s) == SplitFrom(s, <<>>)

\* one step of sorted(): tok placed after the tokens that are <= it
RECURSIVE InsertToken(_, _)
InsertToken(toks, tok) ==
  IF toks = <<>> THEN <<tok>>
  ELSE IF StrLeq(toks[1], tok) THEN <<toks[1]>> \o InsertToken(Tail(toks), tok)
  ELSE <<tok>> \o toks

\* sorted(tokens)
RECURSIVE SortTokens(_)
SortTokens(toks) ==
  IF toks = <<>> THEN <<>>
  ELSE InsertToken(SortTokens(SubSeq(toks, 1, Len(toks) - 1)), toks[Len(toks)])

\* " ".join(tokens)
RECURSIVE Join(_)
Join(toks) ==
  IF toks = <<>> THEN <<>>
  ELSE IF Len(toks) = 1 THEN toks[1]
  ELSE toks[1] \o <<Espacio>> \o Join(Tail(toks))

\* utils.full_process on the alphabet of the model: lower-case and strip
FullProcess(s) == Strip(Lower(s))

\* the processed, token-sorted form of a string
TokenSort(s) == Join(SortTokens(Split(FullProcess(s))))

\* One row of the table of the longest common subsequence: `prev` is the
\* row of the prefix before character c, `fila` the part of the new row
\* already computed (columns 0..j-1, kept at indices 1..j).
RECURSIVE LcsFila(_, _, _, _, _)
LcsFila(j, fila, prev, c, t) ==
  IF j > Len(t) THEN fila
  ELSE LcsFila(j + 1,
               Append(fila, IF c = t[j] THEN prev[j] + 1
                                        ELSE Max2(prev[j + 1], fila[j])),
               prev, c, t)

RECURSIVE LcsDesde(_, _, _, _)
LcsDesde(i, prev, s, t) ==
  IF i > Len(s) THEN prev[Len(t) + 1]
  ELSE LcsDesde(i + 1, LcsFila(1, <<0>>, prev, s[i], t), s, t)

\* length of the longest common subsequence
LCS(s, t) == LcsDesde(1, [j \in 1..(Len(t) + 1) |-> 0], s, t)

\* fuzz.ratio: 100 * 2*LCS / (len1 + len2), rounded
Ratio(s, t) ==
  IF Len(s) + Len(t) = 0 THEN 100 ELSE RoundDiv(200 * LCS(s, t), Len(s) + Len(t))

\* the windows of `largo` the shorter string (of length m) is aligned with:
\* every substring of length m, and the shorter prefixes and suffixes
Ventanas(largo, m) ==
  {SubSeq(largo, i, i + m - 1) : i \in 1..(Len(largo) - m + 1)}
    \cup {SubSeq(largo, 1, k) : k \in 1..(m - 1)}
    \cup {SubSeq(largo, Len(largo) - k + 1, Len(largo)) : k \in 1..(m - 1)}

\* fuzz.partial_ratio
PartialRatio(s, t) ==
  IF s = <<>> \/ t = <<>> THEN (IF s = t THEN 100 ELSE 0)
  ELSE LET corto == IF Len(s) <= Len(t) THEN s ELSE t
           largo == IF Len(s) <= Len(t) THEN t ELSE s
       IN  MaxOf({Ratio(corto, w) : w \in Ventanas(largo, Len(corto))})

\* fuzz.partial_token_sort_ratio
PartialTokenSortRatio(s, t) == PartialRatio(TokenSort(s), TokenSort(t))

(***************************************************************************)
(* State.                                                                  *)
(***************************************************************************)
VARIABLES
  \* MotorPrecios
  archivo_margenes,   \* the configuration document on disk (margenes.json)
  margenes,           \* self.margenes: supplier -> raw entry
  margen_default,     \* self.margen_default
  umbral_fuzzy,       \* self.umbral_fuzzy
  moneda,             \* self.moneda
  drive_folder_id,    \* self.drive_folder_id
  proveedores,        \* self.proveedores: ordered supplier -> table
  \* MotorMobileLite
  productos,          \* self.productos
  lite_margenes,      \* self.margenes
  lite_margen_default,\* self.margen_default
  \* the call of buscar_producto in progress or just returned
  pc,                 \* "listo" | "retornado"
  llamada,            \* its arguments
  exactos,            \* resultados after phase 1 (substring)
  fuzzy,              \* the hits phase 2 (fuzzy) appended
  fuzzy_corrio,       \* whether the body of phase 2 was entered
  retorno,            \* the list returned
  \* the input directory and the load in progress
  directorio,         \* file name -> the source file
  cache,              \* supplier -> cache/<supplier>.pkl
  reloj,              \* the time modification times are taken from
  motor,              \* "nuevo" | "cargando" | "listo" | "caido"
  trabajos,           \* the tasks of executor.map, one per listed file
  ultimo,             \* the engine's latest operation, and whether it ended well
  \* history kept for the properties
  parseados,          \* files a reader ran on during the current load
  validos_previos,    \* files with a usable cache entry when this recargar() began
  estable,            \* recargar() calls completed in a row, directory unchanged
  catalogo_previo,    \* self.proveedores when this recargar() began
  cambios,            \* changes made to the directory and the document
  reescritos,         \* suppliers whose cache entry was written in this load
  actualizaciones,    \* calls of actualizar_margen()
  verificar,          \* the last actualizar_margen, what it found, and whether
                      \* recargar() has followed it
  \* one call of _procesar_dataframe_inteligente
  grilla,             \* argument df: the raw grid
  mapeo_manual,       \* argument mapeo_manual
  tabla,              \* what the call gave
  indices_muestra,    \* the row positions the automatic mode sampled
  \* one call of _leer_pdf
  pdf,                \* the document as pdfplumber reads it
  lectura,            \* the tables accepted, the salvage rows, the result
  \* FerreteriaMobileApp (main.py, main_mobile.py)
  base_datos,         \* base_datos_mobile.json in the working directory
  app,                \* which program runs
  app_motor,          \* self.motor: None or a MotorMobileLite
  app_ui,             \* whether the page has its controls
  info_text,          \* the number self.info_text shows
  results_column,     \* the hits self.results_column shows
  app_error,          \* the exception that ended a constructor or a handler
  \* the companion files <source>.json of the input directory
  companeros          \* per source file: 0 without companion, else the
                      \* skip_rows of a mapping that names its columns

vars_config == <<archivo_margenes, margenes, margen_default, umbral_fuzzy,
                 moneda, drive_folder_id>>
vars_lite == <<productos, lite_margenes, lite_margen_default>>
vars_inferencia == <<grilla, mapeo_manual, tabla, indices_muestra>>
vars_pdf == <<pdf, lectura>>
vars_companero == <<companeros>>
vars_app == <<base_datos, app, app_motor, app_ui, info_text, results_column, app_error>>
vars_llamada == <<pc, llamada, exactos, fuzzy, fuzzy_corrio, retorno>>
vars_ingesta == <<directorio, cache, reloj, motor, trabajos, ultimo>>
vars_ingesta_sin_ultimo == <<directorio, cache, reloj, motor, trabajos>>

vars_historia == <<parseados, reescritos, validos_previos, estable, catalogo_previo,
                   cambios, actualizaciones, verificar>>
vars == <<vars_config, proveedores, vars_lite, vars_inferencia, vars_pdf, vars_app, vars_companero, vars_llamada, vars_ingesta,
          vars_historia>>

(***************************************************************************)
(* Configuration entries.  A raw entry of margenes_por_proveedor is a      *)
(* number or a JSON object; `claves` are the keys the object carries.      *)
(***************************************************************************)
Num(n) == [tipo |-> "num", valor |-> n, claves |-> {},
           margen |-> 0, desc1 |-> 0, desc2 |-> 0]

Dict(claves, m, d1, d2) ==
  [tipo |-> "dict", valor |-> 0, claves |-> claves,
   margen |-> IF "margen" \in claves THEN m ELSE 0,
   desc1 |-> IF "desc1" \in claves THEN d1 ELSE 0,
   desc2 |-> IF "desc2" \in claves THEN d2 ELSE 0]

ClavesConfig == {"margen", "desc1", "desc2"}

\* raw.get(k, 0)
GetCampo(raw, k) == IF k \in raw.claves THEN raw[k] ELSE 0

\* obtener_info_config of both engines, on the engine's map and default
InfoConfig(mapa, default, proveedor) ==
  LET raw == IF proveedor \in DOMAIN mapa THEN mapa[proveedor] ELSE Num(default)
  IN  IF raw.tipo = "dict"
      THEN [margen |-> GetCampo(raw, "margen"),
            desc1 |-> GetCampo(raw, "desc1"),
            desc2 |-> GetCampo(raw, "desc2")]
      ELSE [margen |-> raw.valor, desc1 |-> 0, desc2 |-> 0]

\* MotorPrecios.obtener_info_config
obtener_info_config(proveedor) == InfoConfig(margenes, margen_default, proveedor)

\* MotorMobileLite.obtener_info_config
lite_obtener_info_config(proveedor) ==
  InfoConfig(lite_margenes, lite_margen_default, proveedor)

(***************************************************************************)
(* Pricing.  precio_costo is in cents; the result is round(price, 2) in    *)
(* cents.  costo_neto is kept as the fraction num / den.                   *)
(***************************************************************************)
\* MotorPrecios.calcular_precio_final
calcular_precio_final(precio_costo, config) ==
  LET n1 == IF config.desc1 > 0 THEN precio_costo * (100 - config.desc1)
                                ELSE precio_costo
      e1 == IF config.desc1 > 0 THEN 100 ELSE 1
      n2 == IF config.desc2 > 0 THEN n1 * (100 - config.desc2) ELSE n1
      e2 == IF config.desc2 > 0 THEN e1 * 100 ELSE e1
  IN  RoundDiv(n2 * (100 + config.margen), e2 * 100)

\* MotorMobileLite._calcular_precio_final
lite_calcular_precio_final(item) ==
  LET config == lite_obtener_info_config(item.proveedor)
      n1 == IF config.desc1 > 0 THEN item.precio_costo * (100 - config.desc1)
                                ELSE item.precio_costo
      e1 == IF config.desc1 > 0 THEN 100 ELSE 1
      n2 == IF config.desc2 > 0 THEN n1 * (100 - config.desc2) ELSE n1
      e2 == IF config.desc2 > 0 THEN e1 * 100 ELSE e1
  IN  RoundDiv(n2 * (100 + config.margen), e2 * 100)

(***************************************************************************)
(* MotorPrecios.buscar_producto.                                           *)
(***************************************************************************)
Min2(a, b) == IF a <= b THEN a ELSE b

\* seq[:n] for n >= 0
Primeros(seq, n) == SubSeq(seq, 1, Min2(n, Len(seq)))

\* The falsy value of the optional argument proveedor_target (None).
SinProveedor == ""

\* one SearchHit dict; the cost of a normalized row is already a float, so
\* float(str(cost)) gives it back
Hit(fila, nom_prov, score) ==
  LET config == obtener_info_config(nom_prov)
  IN  [codigo |-> fila.Codigo,
       producto |-> fila.Producto,
       proveedor |-> nom_prov,
       precio_costo |-> fila.PrecioCosto,
       config |-> config,
       precio_final |-> calcular_precio_final(fila.PrecioCosto, config),
       score_busqueda |-> score]

\* mask: the product or the code, lower-cased, contains the query
Coincide(fila, consulta) ==
  \/ Contains(Lower(fila.Producto), consulta)
  \/ Contains(Lower(fila.Codigo), consulta)

\* df[mask]
RECURSIVE Filtrar(_, _)
Filtrar(filas, consulta) ==
  IF filas = <<>> THEN <<>>
  ELSE (IF Coincide(filas[1], consulta) THEN <<filas[1]>> ELSE <<>>)
         \o Filtrar(Tail(filas), consulta)

\* the hits of one supplier in phase 1: df[mask].head(limite), score 100
ExactosDe(prov, consulta, limite) ==
  LET df_exact == Primeros(Filtrar(prov.filas, consulta), limite)
  IN  [k \in 1..Len(df_exact) |-> Hit(df_exact[k], prov.nombre, ScoreExacto)]

\* phase 1 from supplier i on, `res` being resultados so far; the loop
\* stops once resultados holds 2 * limite hits
RECURSIVE FaseExacta(_, _, _, _, _)
FaseExacta(i, res, consulta, limite, target) ==
  IF i > Len(proveedores) THEN res
  ELSE LET prov == proveedores[i]
       IN  IF (target # SinProveedor /\ prov.nombre # target) \/ prov.filas = <<>>
           THEN FaseExacta(i + 1, res, consulta, limite, target)
           ELSE LET res2 == res \o ExactosDe(prov, consulta, limite)
                IN  IF Len(res2) >= limite * 2 THEN res2
                    ELSE FaseExacta(i + 1, res2, consulta, limite, target)

\* CorreFuzzy with the test of the query length dropped
CorreFuzzySinLargo(res, consulta) == Len(res) < MinExactos

\* "if len(resultados) < 5 and len(consulta) > 3"
CorreFuzzy(res, consulta) ==
  Len(res) < MinExactos /\ Len(consulta) > LargoMinFuzzy

\* sort(key = score, reverse = True): x goes after the entries whose score
\* is >= its own, so equal scores keep their order
RECURSIVE InsertarPorScore(_, _)
InsertarPorScore(seq, x) ==
  IF seq = <<>> THEN <<x>>
  ELSE IF seq[1].score_busqueda >= x.score_busqueda
       THEN <<seq[1]>> \o InsertarPorScore(Tail(seq), x)
       ELSE <<x>> \o seq

RECURSIVE OrdenarDesc(_)
OrdenarDesc(seq) ==
  IF seq = <<>> THEN <<>>
  ELSE InsertarPorScore(OrdenarDesc(SubSeq(seq, 1, Len(seq) - 1)), seq[Len(seq)])

\* process.extract(consulta, pool, limit=5, scorer=partial_token_sort_ratio):
\* the best 5 (text, score) pairs, best first
Extract(consulta, pool) ==
  LET pares == [k \in 1..Len(pool) |->
                  [texto |-> pool[k],
                   score_busqueda |-> PartialTokenSortRatio(consulta, pool[k])]]
  IN  Primeros(OrdenarDesc(pares), LimiteExtract)

\* df[df["Producto"] == m_str].iloc[0]
PrimeraFila(filas, m_str) ==
  filas[CHOOSE k \in 1..Len(filas) :
          /\ filas[k].Producto = m_str
          /\ \A j \in 1..(k - 1) : filas[j].Producto # m_str]

\* the matches of one supplier appended to resultados
RECURSIVE AgregarMatches(_, _, _)
AgregarMatches(matches, prov, res) ==
  IF matches = <<>> THEN res
  ELSE LET m == matches[1]
           repetido == \E k \in 1..Len(res) :
                          res[k].producto = m.texto /\ res[k].proveedor = prov.nombre
       IN  IF m.score_busqueda < umbral_fuzzy \/ repetido
           THEN AgregarMatches(Tail(matches), prov, res)
           ELSE AgregarMatches(Tail(matches), prov,
                  Append(res, Hit(PrimeraFila(prov.filas, m.texto), prov.nombre,
                                 m.score_busqueda)))

\* phase 2 from supplier i on
RECURSIVE FaseFuzzy(_, _, _, _)
FaseFuzzy(i, res, consulta, target) ==
  IF i > Len(proveedores) THEN res
  ELSE LET prov == proveedores[i]
       IN  IF (target # SinProveedor /\ prov.nombre # target) \/ prov.filas = <<>>
           THEN FaseFuzzy(i + 1, res, consulta, target)
           ELSE LET pool == [k \in 1..Len(prov.filas) |-> prov.filas[k].Producto]
                IN  FaseFuzzy(i + 1,
                      AgregarMatches(Extract(consulta, pool), prov, res),
                      consulta, target)

\* OrdenarResultados with the sort left out
OrdenarResultadosSinOrden(res) == res

\* "resultados.sort(key=lambda x: x["score_busqueda"], reverse=True)"
OrdenarResultados(res) == OrdenarDesc(res)

\* Truncar with the slice left out
TruncarSinCorte(res, limite) == res

\* "return resultados[:limite]"
Truncar(res, limite) == Primeros(res, limite)

\* "consulta = str(consulta).lower().strip()"
Normalizar(consulta) == Strip(Lower(consulta))

\* buscar_producto(consulta, limite, proveedor_target)
Buscar(consulta_in, limite, target) ==
  LET consulta == Normalizar(consulta_in)
      res1 == FaseExacta(1, <<>>, consulta, limite, target)
      corre == CorreFuzzy(res1, consulta)
      res2 == IF corre THEN FaseFuzzy(1, res1, consulta, target) ELSE res1
  IN  /\ pc = "listo"
      /\ pc' = "retornado"
      /\ llamada' = [motor |-> "MotorPrecios", consulta |-> consulta_in,
                     limite |-> limite, proveedor_target |-> target]
      /\ exactos' = res1
      /\ fuzzy_corrio' = corre
      /\ fuzzy' = SubSeq(res2, Len(res1) + 1, Len(res2))
      /\ retorno' = Truncar(OrdenarResultados(res2), limite)
      /\ UNCHANGED <<vars_config, proveedores, vars_lite, vars_inferencia, vars_pdf, vars_app, vars_companero, vars_ingesta, vars_historia>>

(***************************************************************************)
(* MotorMobileLite.buscar_producto.                                        *)
(***************************************************************************)
\* The suppliers of the model and their names as text.
Proveedores == {"Ba", "bb"}

TextoDe(nombre) ==
  CASE nombre = "Ba" -> <<"B", "a">>
    [] nombre = "bb" -> <<"b", "b">>
    [] OTHER -> <<>>

\* the three tests of the loop body
LiteCoincide(p, consulta) ==
  \/ Contains(Lower(p.producto), consulta)
  \/ Contains(Lower(p.codigo), consulta)
  \/ Contains(Lower(TextoDe(p.proveedor)), consulta)

\* item = p.copy(); item["precio_final"] = precio_final
LiteItem(p) ==
  [codigo |-> p.codigo, producto |-> p.producto, proveedor |-> p.proveedor,
   precio_costo |-> p.precio_costo,
   precio_final |-> lite_calcular_precio_final(p)]

\* the loop over self.productos from index i on; it breaks once
\* resultados holds `limite` items
RECURSIVE LiteRecorrer(_, _, _, _)
LiteRecorrer(i, res, consulta, limite) ==
  IF i > Len(productos) THEN res
  ELSE IF LiteCoincide(productos[i], consulta)
       THEN LET res2 == Append(res, LiteItem(productos[i]))
            IN  IF Len(res2) >= limite THEN res2
                ELSE LiteRecorrer(i + 1, res2, consulta, limite)
       ELSE LiteRecorrer(i + 1, res, consulta, limite)

\* the value buscar_producto returns
LiteResultado(consulta_in, limite) ==
  LET consulta == Normalizar(consulta_in)
  IN  IF consulta = <<>> THEN <<>> ELSE LiteRecorrer(1, <<>>, consulta, limite)

\* MotorMobileLite.buscar_producto(consulta, limite)
LiteBuscar(consulta_in, limite) ==
  /\ pc = "listo"
  /\ pc' = "retornado"
  /\ llamada' = [motor |-> "MotorMobileLite", consulta |-> consulta_in,
                 limite |-> limite, proveedor_target |-> SinProveedor]
  /\ exactos' = <<>>
  /\ fuzzy' = <<>>
  /\ fuzzy_corrio' = FALSE
  /\ retorno' = LiteResultado(consulta_in, limite)
  /\ UNCHANGED <<vars_config, proveedores, vars_lite, vars_inferencia, vars_pdf, vars_app, vars_companero, vars_ingesta, vars_historia>>

\* the caller takes the list; the engine is ready for the next call
Retornar ==
  /\ pc = "retornado"
  /\ pc' = "listo"
  /\ llamada' = [motor |-> "", consulta |-> <<>>, limite |-> 0,
                 proveedor_target |-> SinProveedor]
  /\ exactos' = <<>>
  /\ fuzzy' = <<>>
  /\ fuzzy_corrio' = FALSE
  /\ retorno' = <<>>
  /\ UNCHANGED <<vars_config, proveedores, vars_lite, vars_inferencia, vars_pdf, vars_app, vars_companero, vars_ingesta, vars_historia>>

(***************************************************************************)
(* Loading the configuration document.                                     *)
(***************************************************************************)
\* a map with no entry
MapaVacio == [x \in {} |-> Num(0)]

ClavesDoc == {"margenes_por_proveedor", "margen_default",
              "umbral_busqueda_fuzzy", "moneda", "drive_folder_id"}

\* a document that parses; `claves` are the top-level keys it carries
Doc(claves, mapa, def, umbral, mon, drive) ==
  [estado |-> "ok", claves |-> claves, margenes_por_proveedor |-> mapa,
   margen_default |-> def, umbral_busqueda_fuzzy |-> umbral,
   moneda |-> mon, drive_folder_id |-> drive]

\* no file (FileNotFoundError) / a file that is not JSON (JSONDecodeError)
DocAusente == [Doc({}, MapaVacio, 0, 0, "", "") EXCEPT !.estado = "ausente"]
DocCorrupto == [Doc({}, MapaVacio, 0, 0, "", "") EXCEPT !.estado = "corrupto"]

\* config.get(k, default)
GetDoc(doc, k, default) == IF k \in doc.claves THEN doc[k] ELSE default

\* MotorPrecios._cargar_margenes: the five attributes after the call, given
\* their values `actual` before it
CargarMargenes(doc, actual) ==
  IF doc.estado = "ok"
  THEN [margenes |-> GetDoc(doc, "margenes_por_proveedor", MapaVacio),
        margen_default |-> GetDoc(doc, "margen_default", MargenDefaultInicial),
        umbral_fuzzy |-> GetDoc(doc, "umbral_busqueda_fuzzy", UmbralFuzzyInicial),
        moneda |-> GetDoc(doc, "moneda", "ARS"),
        drive_folder_id |-> GetDoc(doc, "drive_folder_id", "")]
  ELSE actual

\* the attributes MotorPrecios.__init__ sets before it loads anything
AtributosIniciales ==
  [margenes |-> MapaVacio, margen_default |-> MargenDefaultInicial,
   umbral_fuzzy |-> UmbralFuzzyInicial, moneda |-> "ARS", drive_folder_id |-> ""]

\* MotorMobileLite._cargar_datos, part 2: margenes and margen_default
LiteCargarMargenes(doc, actual) ==
  IF doc.estado = "ok"
  THEN [margenes |-> GetDoc(doc, "margenes_por_proveedor", MapaVacio),
        margen_default |-> GetDoc(doc, "margen_default", LiteMargenDefaultInicial)]
  ELSE actual

LiteAtributosIniciales ==
  [margenes |-> MapaVacio, margen_default |-> LiteMargenDefaultInicial]

(***************************************************************************)
(* The input directory, as _cargar_proveedores sees it.                    *)
(***************************************************************************)
\* os.listdir(): the eligible file names, in the order they are listed.
\* Two of them share the stem "Ba".
NombresArchivos == <<"Ba.csv", "Ba.pdf", "bb.csv">>

ConjuntoArchivos == {NombresArchivos[i] : i \in 1..Len(NombresArchivos)}

\* os.path.splitext(archivo)[0]
Stem(archivo) == IF archivo = "bb.csv" THEN "bb" ELSE "Ba"

\* A source file.  `filas` is the number of rows reader and schema
\* inference get out of it (0: not a price table); a file that is not
\* `legible` makes the reader raise.
Archivo(existe, mtime, legible, filas) ==
  [existe |-> existe, mtime |-> mtime, legible |-> legible, filas |-> filas]

ArchivoAusente == Archivo(FALSE, 0, FALSE, 0)

\* no source file has a companion <source>.json
SinCompaneros == companeros = [f \in ConjuntoArchivos |-> 0]

\* cache/<supplier>.pkl; `origen` is the file whose worker wrote it
Pickle(existe, mtime, legible, filas, origen) ==
  [existe |-> existe, mtime |-> mtime, legible |-> legible, filas |-> filas,
   origen |-> origen]

PickleAusente == Pickle(FALSE, 0, FALSE, <<>>, "")

\* the value a task returns: None, or (nombre, df)
SinResultado == [hay |-> FALSE, nombre |-> "", filas |-> <<>>]

Resultado(nombre, filas) == [hay |-> TRUE, nombre |-> nombre, filas |-> filas]

\* no update_margin is being followed
SinVerificar == [fase |-> "no", proveedor |-> "", margen |-> 0, desc1 |-> 0,
                 desc2 |-> 0, antes |-> DocAusente]

(***************************************************************************)
(* Schema inference: MotorPrecios._procesar_dataframe_inteligente and      *)
(* _limpieza_final.  A grid is the DataFrame after astype(str): column     *)
(* labels and rows of cells, a cell being a text.  A missing cell reads    *)
(* "nan".                                                                  *)
(***************************************************************************)
Grilla(columnas, filas) == [columnas |-> columnas, filas |-> filas]

\* no call yet
GrillaNula == Grilla(<<>>, <<>>)

\* mapeo_manual = None
SinMapeo == [hay |-> FALSE, skip_rows |-> 0, col_producto |-> 0 - 1,
             col_precio |-> 0 - 1, col_codigo |-> 0 - 1]

\* a companion mapping; a key that is absent reads as its default
\* (skip_rows 0, the columns -1)
Mapeo(skip, prod, precio, cod) ==
  [hay |-> TRUE, skip_rows |-> skip, col_producto |-> prod,
   col_precio |-> precio, col_codigo |-> cod]

\* What the call gives: a table (empty: pd.DataFrame() or a DataFrame
\* without rows), or an exception that leaves the function.
SinTabla == [estado |-> "pendiente", filas |-> <<>>]
TablaVacia == [estado |-> "tabla", filas |-> <<>>]
Excepcion == [estado |-> "error", filas |-> <<>>]

Digitos == {"0", "1", "2", "3", "4", "5", "6", "7", "8", "9"}

\* int(c) of a digit
ValorDigito(c) ==
  CASE c = "0" -> 0 [] c = "1" -> 1 [] c = "2" -> 2 [] c = "3" -> 3
    [] c = "4" -> 4 [] c = "5" -> 5 [] c = "6" -> 6 [] c = "7" -> 7
    [] c = "8" -> 8 [] c = "9" -> 9

\* c.isdigit() / c.isalpha() on the characters of the model
EsDigito(c) == c \in Digitos
EsLetra(c) == c \in Letras \cup Mayusculas \cup {"n"}

\* str.replace(pat, rep), pat not empty
RECURSIVE Reemplazar(_, _, _)
Reemplazar(t, pat, rep) ==
  IF Len(t) < Len(pat) THEN t
  ELSE IF SubSeq(t, 1, Len(pat)) = pat
       THEN rep \o Reemplazar(SubSeq(t, Len(pat) + 1, Len(t)), pat, rep)
       ELSE <<t[1]>> \o Reemplazar(Tail(t), pat, rep)

\* .replace("$", "").replace("USD", "").replace("EUR", "")
QuitarMoneda(t) ==
  Reemplazar(Reemplazar(Reemplazar(t, <<"$">>, <<>>), <<"U", "S", "D">>, <<>>),
             <<"E", "U", "R">>, <<>>)

\* str.rfind(c) + 1: the last position of c, 0 when there is none
RFind(t, c) ==
  IF \E i \in 1..Len(t) : t[i] = c
  THEN CHOOSE i \in 1..Len(t) : t[i] = c /\ \A j \in (i + 1)..Len(t) : t[j] # c
  ELSE 0

\* the number a text of digits writes
RECURSIVE NumeroDe(_)
NumeroDe(digs) ==
  IF digs = <<>> THEN 0
  ELSE NumeroDe(SubSeq(digs, 1, Len(digs) - 1)) * 10 + ValorDigito(digs[Len(digs)])

\* float(t) for texts of digits, ".", sign and blanks: the value is
\* (-) num / den; ok is FALSE where float() raises ValueError.  Texts with
\* letters are not numbers here ("nan" parses in Python, to a value that is
\* not > 0).
Float(t) ==
  LET s == Strip(t)
      signo == s # <<>> /\ s[1] \in {"-", "+"}
      cuerpo == IF signo THEN Tail(s) ELSE s
      puntos == {i \in 1..Len(cuerpo) : cuerpo[i] = "."}
      digs == SelectSeq(cuerpo, EsDigito)
      decimales == IF puntos = {} THEN 0 ELSE Len(cuerpo) - RFind(cuerpo, ".")
  IN  [ok |-> /\ \A i \in 1..Len(cuerpo) : cuerpo[i] \in Digitos \cup {"."}
              /\ Cardinality(puntos) <= 1
              /\ digs # <<>>,
       neg |-> signo /\ s[1] = "-",
       num |-> NumeroDe(digs),
       den |-> 10 ^ decimales]

\* limpiar_precio returns None
SinPrecio == [ok |-> FALSE, num |-> 0, den |-> 1]

\* EsPositivo that lets zero through
NoEsNegativo(f) == ~f.neg

\* "f > 0"
EsPositivo(f) == ~f.neg /\ f.num > 0

\* the text brought to the form float() reads: which of "," and "." is
\* the decimal mark, and the thousands rule for a text with "." alone
SepararDecimales(v) ==
  LET coma == Contains(v, <<",">>)
      punto == Contains(v, <<".">>)
  IN  IF coma /\ punto
      THEN IF RFind(v, ",") > RFind(v, ".")
           THEN Reemplazar(Reemplazar(v, <<".">>, <<>>), <<",">>, <<".">>)
           ELSE Reemplazar(v, <<",">>, <<>>)
      ELSE IF coma THEN Reemplazar(v, <<",">>, <<".">>)
      ELSE IF punto /\ Len(v) - RFind(v, ".") = 3
           THEN Reemplazar(v, <<".">>, <<>>)
           ELSE v

\* "return f if f > 0 else None", and None when float() raises
PrecioPositivo(f) ==
  IF f.ok /\ EsPositivo(f) THEN [ok |-> TRUE, num |-> f.num, den |-> f.den]
  ELSE SinPrecio

\* limpiar_precio of _limpieza_final: the cost as the fraction num / den,
\* or None
LimpiarPrecio(val) == PrecioPositivo(Float(SepararDecimales(QuitarMoneda(Strip(val)))))

\* the position of the column labelled `nombre`, 0 when there is none
Columna(columnas, nombre) ==
  IF \E i \in 1..Len(columnas) : columnas[i] = nombre
  THEN CHOOSE i \in 1..Len(columnas) : columnas[i] = nombre
  ELSE 0

NAN == <<"n", "a", "n">>

\* the row kept for a cleaned price, a stripped product and a stripped
\* code: nothing when the price is None or the product has at most one
\* character
FilaCon(precio, producto, codigo) ==
  IF precio.ok /\ Len(producto) > 1
  THEN <<[Codigo |-> IF codigo = NAN THEN <<>> ELSE codigo,
          Producto |-> producto,
          PrecioCosto |-> [num |-> precio.num, den |-> precio.den]]>>
  ELSE <<>>

\* one row of _limpieza_final
LimpiarFila(fila, c_prod, c_precio, c_cod) ==
  FilaCon(LimpiarPrecio(fila[c_precio]), Strip(fila[c_prod]),
          IF c_cod = 0 THEN <<>> ELSE Strip(fila[c_cod]))

\* the rows that are kept, in the order of the grid
\* the rows themselves, out of the one-element lists
PrimerosDe(quedan) == [i \in 1..Len(quedan) |-> quedan[i][1]]

LimpiarFilas(filas, c_prod, c_precio, c_cod) ==
  PrimerosDe(SelectSeq([i \in 1..Len(filas) |->
                          LimpiarFila(filas[i], c_prod, c_precio, c_cod)],
                       LAMBDA f : f # <<>>))

\* df_final[...] raises KeyError: a column _limpieza_final needs is missing
ErrorDeClave == [estado |-> "KeyError", filas |-> <<>>]

\* MotorPrecios._limpieza_final on a grid whose columns are renamed; a
\* "Codigo" column the caller added holds "" in every row
limpieza_final(columnas, filas) ==
  IF Columna(columnas, "Precio de Costo") = 0 \/ Columna(columnas, "Producto") = 0
  THEN ErrorDeClave
  ELSE [estado |-> "tabla",
        filas |-> LimpiarFilas(filas, Columna(columnas, "Producto"),
                               Columna(columnas, "Precio de Costo"),
                               Columna(columnas, "Codigo"))]

EsLetraOEspacio(c) == EsLetra(c) \/ c = Espacio

\* sum(c.isdigit() for c in t), sum(c.isalpha() or c.isspace() for c in t)
ContarDigitos(t) == Len(SelectSeq(t, EsDigito))
ContarLetras(t) == Len(SelectSeq(t, EsLetraOEspacio))

\* es_numero_posible: more than half of the characters are digits
es_numero_posible(texto) ==
  LET t == Lower(QuitarMoneda(Strip(texto)))
  IN  t # <<>> /\ t # NAN /\ ContarDigitos(t) * 2 > Len(t)

\* tiene_decimales
tiene_decimales(texto) ==
  Contains(Strip(texto), <<",">>) \/ Contains(Strip(texto), <<".">>)

\* es_producto: four characters or more, over 60% letters and blanks
es_producto(texto) ==
  LET t == Strip(texto)
  IN  Len(t) >= 4 /\ Lower(t) # NAN /\ ContarLetras(t) * 5 > 3 * Len(t)

\* es_codigo
es_codigo(texto) ==
  LET t == Strip(texto)
  IN  Lower(t) # NAN /\ 1 < Len(t) /\ Len(t) < 18 /\ ContarDigitos(t) > 0

\* the cells of column c (1-based) of the rows
CeldasDe(filas, c) == [i \in 1..Len(filas) |-> filas[i][c]]

\* sum(len(x) for x in muestra_str)
RECURSIVE SumaLargosDesde(_, _)
SumaLargosDesde(celdas, i) ==
  IF i > Len(celdas) THEN 0 ELSE Len(Strip(celdas[i])) + SumaLargosDesde(celdas, i + 1)

SumaLargos(celdas) == SumaLargosDesde(celdas, 1)

\* The counts the scores of a column are made of.  With total = the number
\* of rows sampled (every row, for grids of fewer than 400 rows):
\*   scores_precio    = hits_num / total
\*   scores_decimales = hits_dec / total
\*   scores_producto  = (hits_prod / total) * (suma_len / total)
\*   scores_codigo    = (hits_cod / total) * (unicos / total)
\* Comparisons of scores are made on the cross-multiplied integers.
Conteos(filas, c) ==
  LET muestra == CeldasDe(filas, c)
      es_num_dec(x) == es_numero_posible(x) /\ tiene_decimales(x)
  IN  [total |-> Len(muestra),
       unicos |-> Cardinality({Strip(muestra[i]) : i \in 1..Len(muestra)}),
       suma_len |-> SumaLargos(muestra),
       hits_num |-> Len(SelectSeq(muestra, es_numero_posible)),
       hits_dec |-> Len(SelectSeq(muestra, es_num_dec)),
       hits_prod |-> Len(SelectSeq(muestra, es_producto)),
       hits_cod |-> Len(SelectSeq(muestra, es_codigo))]

\* scores_precio[c] > num / den, and likewise for the other scores
PrecioMayor(k, num, den) == k.hits_num * den > num * k.total
ProductoMayor(k, num, den) == k.hits_prod * k.suma_len * den > num * k.total * k.total
CodigoMayor(k, num, den) == k.hits_cod * k.unicos * den > num * k.total * k.total

\* the counts of every column of the grid
ConteosDe(g) == [c \in 1..Len(g.columnas) |-> Conteos(g.filas, c)]

\* Column labels are the integers 0, 1, 2, ... of a grid read with
\* header=None, written here as the strings "0", "1", "2", or the names a
\* reader gave.  The integer label 0 is false in a truth test.
Falsy(etiqueta) == etiqueta = "0"

\* df.rename(columns=mapa) for the mapa built in both paths: the entry for
\* the code column was written last, the one for the price column after the
\* one for the product column, so a later entry replaces an earlier one
\* with the same key
Renombrar(columnas, l_prod, l_precio, l_cod, con_cod) ==
  [i \in 1..Len(columnas) |->
     IF con_cod /\ columnas[i] = l_cod THEN "Codigo"
     ELSE IF columnas[i] = l_precio THEN "Precio de Costo"
     ELSE IF columnas[i] = l_prod THEN "Producto"
     ELSE columnas[i]]

\* the positions in seq order, without position c
SinPosicion(posiciones, c) == SelectSeq(posiciones, LAMBDA x : x # c)

\* candidatos.sort(key=scores_precio, reverse=True): a stable sort, so equal
\* scores keep the column order
RECURSIVE OrdenarPorPrecio(_, _)
OrdenarPorPrecio(K, pendientes) ==
  IF pendientes = <<>> THEN <<>>
  ELSE LET EsMayor(i) == \A j \in 1..Len(pendientes) :
                            K[pendientes[j]].hits_num <= K[pendientes[i]].hits_num
           primero == CHOOSE i \in 1..Len(pendientes) :
                        /\ EsMayor(i)
                        /\ \A j \in 1..(i - 1) : ~EsMayor(j)
       IN  <<pendientes[primero]>>
             \o OrdenarPorPrecio(K, SinPosicion(pendientes, pendientes[primero]))

\* the loop over candidatos[1:]: a candidate within 0.2 of the best price
\* score replaces it when its decimals score is more than 0.1 higher
RECURSIVE Desempatar(_, _, _)
Desempatar(K, best_col, resto) ==
  IF resto = <<>> THEN best_col
  ELSE LET cand == resto[1]
           total == K[best_col].total
       IN  IF (K[best_col].hits_num - K[cand].hits_num) * 5 < total
           THEN IF (K[cand].hits_dec - K[best_col].hits_dec) * 10 > total
                THEN Desempatar(K, cand, Tail(resto))
                ELSE Desempatar(K, best_col, Tail(resto))
           ELSE best_col

\* the positions 1..n as a sequence
Posiciones(n) == [i \in 1..n |-> i]

\* SELECCION PRECIO of the general case: the column position, 0 for none
SeleccionPrecio(K) ==
  LET candidatos == OrdenarPorPrecio(K,
                      SelectSeq(Posiciones(Len(K)), LAMBDA c : PrecioMayor(K[c], 1, 10)))
  IN  IF candidatos = <<>> THEN 0
      ELSE Desempatar(K, candidatos[1], Tail(candidatos))

\* the first of the positions on which peso is greatest (max over a dict, and
\* the loop that keeps a candidate only when it is strictly better)
PrimerMaximo(posiciones, peso) ==
  LET EsMayor(i) == \A j \in 1..Len(posiciones) : peso[posiciones[j]] <= peso[posiciones[i]]
  IN  posiciones[CHOOSE i \in 1..Len(posiciones) :
                   EsMayor(i) /\ \A j \in 1..(i - 1) : ~EsMayor(j)]

\* SELECCION PRODUCTO: the column position, 0 for none
SeleccionProducto(K, col_precio) ==
  LET posibles_prods == SelectSeq(SinPosicion(Posiciones(Len(K)), col_precio),
                                  LAMBDA c : ProductoMayor(K[c], 1, 2))
  IN  IF posibles_prods = <<>> THEN 0
      ELSE PrimerMaximo(posibles_prods, [c \in 1..Len(K) |-> K[c].hits_prod * K[c].suma_len])

\* SELECCION CODIGO: a candidate left of the product column counts double,
\* one to the right counts half; the column position, 0 for none
SeleccionCodigo(K, col_precio, col_producto) ==
  LET candidatos_cod ==
        SelectSeq(SinPosicion(SinPosicion(Posiciones(Len(K)), col_precio), col_producto),
                  LAMBDA c : CodigoMayor(K[c], 1, 20))
  IN  IF candidatos_cod = <<>> THEN 0
      ELSE PrimerMaximo(candidatos_cod,
             [c \in 1..Len(K) |->
                K[c].hits_cod * K[c].unicos * (IF c < col_producto THEN 4 ELSE 1)])

\* the selection out of the scores K of the columns
SeleccionDe(K) ==
  LET ninguna == [ok |-> FALSE, producto |-> 0, precio |-> 0, codigo |-> 0]
  IN  IF Len(K) = 2
      THEN IF PrecioMayor(K[2], 3, 10) /\ ProductoMayor(K[1], 3, 10)
           THEN [ok |-> TRUE, producto |-> 1, precio |-> 2, codigo |-> 0]
           ELSE IF PrecioMayor(K[1], 3, 10) /\ ProductoMayor(K[2], 3, 10)
           THEN [ok |-> TRUE, producto |-> 2, precio |-> 1, codigo |-> 0]
           ELSE ninguna
      ELSE LET col_precio == SeleccionPrecio(K)
               col_producto == SeleccionProducto(K, col_precio)
           IN  IF col_precio = 0 \/ col_producto = 0 THEN ninguna
               ELSE [ok |-> TRUE, producto |-> col_producto, precio |-> col_precio,
                     codigo |-> SeleccionCodigo(K, col_precio, col_producto)]

\* the columns the automatic mode picks: positions, 0 for none; ok is false
\* where the code returns pd.DataFrame() before the final truth test
Seleccion(g) == SeleccionDe(ConteosDe(g))

\* step = max(1, total_filas // 200)
Paso(total_filas) == Max2(1, total_filas \div 200)

\* indices_muestra = range(0, total_filas, step), as a sequence
IndicesMuestra(total_filas) ==
  LET step == Paso(total_filas)
  IN  [k \in 1..((total_filas + step - 1) \div step) |-> (k - 1) * step]

\* the rows df[col].iloc[indices_muestra] reads
Muestra(filas, total_filas) ==
  LET indices == IndicesMuestra(total_filas)
  IN  [k \in 1..Len(indices) |-> filas[indices[k] + 1]]

\* the automatic mode after the selection s: the truth test on the labels,
\* the renaming and the final cleanup
ResultadoAutomatico(g, s) ==
  IF ~s.ok THEN TablaVacia
  ELSE IF Falsy(g.columnas[s.producto]) \/ Falsy(g.columnas[s.precio])
  THEN TablaVacia
  ELSE limpieza_final(
         Renombrar(g.columnas, g.columnas[s.producto], g.columnas[s.precio],
                   IF s.codigo = 0 THEN "" ELSE g.columnas[s.codigo],
                   s.codigo # 0 /\ ~Falsy(g.columnas[s.codigo])),
         g.filas)

\* MODO AUTOMATICO on grid g, with total_filas as it was counted before the
\* manual mode ran: a sampled position beyond the rows of the grid raises
\* IndexError in the first column
ModoAutomatico(g, total_filas) ==
  IF g.columnas = <<>> THEN TablaVacia
  ELSE IF LET indices == IndicesMuestra(total_filas)
          IN  \E k \in 1..Len(indices) : indices[k] >= Len(g.filas)
       THEN Excepcion
  ELSE ResultadoAutomatico(g, Seleccion(Grilla(g.columnas, Muestra(g.filas, total_filas))))

\* df.iloc[skip:] for skip > 0
SaltarFilas(g, skip) ==
  IF skip > 0
  THEN Grilla(g.columnas, SubSeq(g.filas, Min2(skip, Len(g.filas)) + 1, Len(g.filas)))
  ELSE g

\* df.columns[idx] is defined for -n <= idx <= n-1 and raises IndexError
\* otherwise; the position (1-based) it reads
IndiceValido(n, idx) == 0 - n <= idx /\ idx <= n - 1
PosicionDe(n, idx) == IF idx >= 0 THEN idx + 1 ELSE n + idx + 1

\* the "Validar indices" test of the manual mode
FueraDeRango(m, max_idx) == m.col_producto > max_idx \/ m.col_precio > max_idx

\* df.columns[idx] raises IndexError
ErrorDeIndice == [estado |-> "IndexError", filas |-> <<>>]

\* MODO MANUAL, g being the grid df before the skip.  Indices found out of
\* range return pd.DataFrame(); an exception (IndexError of df.columns[idx],
\* KeyError of _limpieza_final) is caught and the automatic mode runs on df
\* as the manual mode left it, with total_filas as counted before the skip.
IntentoManual(g, m) ==
  LET df == SaltarFilas(g, m.skip_rows)
      n == Len(df.columnas)
      max_idx == n - 1
  IN  IF FueraDeRango(m, max_idx) THEN TablaVacia
      ELSE IF ~IndiceValido(n, m.col_producto) \/ ~IndiceValido(n, m.col_precio)
      THEN ErrorDeIndice
      ELSE LET con_cod == m.col_codigo >= 0 /\ m.col_codigo <= max_idx
               df_final == limpieza_final(
                             Renombrar(df.columnas,
                                       df.columnas[PosicionDe(n, m.col_producto)],
                                       df.columnas[PosicionDe(n, m.col_precio)],
                                       IF con_cod THEN df.columnas[PosicionDe(n, m.col_codigo)]
                                       ELSE "",
                                       con_cod),
                             df.filas)
           IN  df_final

\* the try block of the manual mode ended in the except branch
ManualFallo(g, m) == IntentoManual(g, m) \in {ErrorDeIndice, ErrorDeClave}

ModoManual(g, m) ==
  IF ManualFallo(g, m)
  THEN ModoAutomatico(SaltarFilas(g, m.skip_rows), Len(g.filas))
  ELSE IntentoManual(g, m)

\* MotorPrecios._procesar_dataframe_inteligente(df, mapeo_manual)
procesar_dataframe_inteligente(g, m) ==
  IF Columna(g.columnas, "Producto") # 0 /\ Columna(g.columnas, "Precio de Costo") # 0
  THEN limpieza_final(g.columnas, g.filas)
  ELSE IF g.filas = <<>> THEN TablaVacia
  ELSE IF m.hay THEN ModoManual(g, m)
  ELSE ModoAutomatico(g, Len(g.filas))

\* the call reaches line 239 and computes indices_muestra
LlegaAlMuestreo(g, m) ==
  /\ ~(Columna(g.columnas, "Producto") # 0 /\ Columna(g.columnas, "Precio de Costo") # 0)
  /\ g.filas # <<>>
  /\ m.hay => ManualFallo(g, m)

(***************************************************************************)
(* _leer_pdf: tables of every page, filtered; rows salvaged from the text; *)
(* the resolution between both.  A cell is its text, str(v): the text      *)
(* "None" is an empty cell of pdfplumber.                                  *)
(***************************************************************************)
KEYWORDS_HEADER ==
  { <<"c", "o", "d", "i", "g", "o">>,
    <<"d", "e", "s", "c", "r", "i", "p", "c", "i", "o", "n">>,
    <<"d", "e", "s", "c", "r", "i", "p", "c", "i", "ó", "n">>,
    <<"p", "r", "o", "d", "u", "c", "t", "o">>,
    <<"p", "r", "e", "c", "i", "o">>,
    <<"$", " ", "l", "i", "s", "t", "a">>,
    <<"$", "l", "i", "s", "t", "a">>,
    <<"l", "i", "s", "t", "a">>,
    <<"c", "o", "s", "t", "o">>,
    <<"a", "r", "t">>,
    <<"a", "r", "t", "i", "c", "u", "l", "o">>,
    <<"a", "r", "t", "í", "c", "u", "l", "o">>,
    <<"d", "e", "t", "a", "l", "l", "e">>,
    <<"i", "m", "p", "o", "r", "t", "e">>,
    <<"p", ".", "l", "i", "s", "t", "a">>,
    <<"p", ".", " ", "l", "i", "s", "t", "a">>,
    <<"c", "o", "d">>,
    <<"c", "o", "d", "e">>,
    <<"i", "t", "e", "m">>,
    <<"r", "e", "f">>,
    <<"r", "e", "f", "e", "r", "e", "n", "c", "i", "a">> }

NONE == <<"N", "o", "n", "e">>

\* str(v).strip() not in ("", "None", "nan")
ConContenido(v) == Strip(v) \notin {<<>>, NONE, NAN}

\* any(kw in c for kw in KEYWORDS_HEADER)
TieneKeyword(c) == \E kw \in KEYWORDS_HEADER : Contains(c, kw)

\* FILTRO 2: a row with some cell that has content
FilaConContenido(fila) == \E j \in 1..Len(fila) : ConContenido(fila[j])

\* celdas = [str(v).strip().lower() for v in row if str(v).strip()]
CeldasDeFila(fila) ==
  LET llenas == SelectSeq(fila, LAMBDA v : Strip(v) # <<>>)
  IN  [j \in 1..Len(llenas) |-> Lower(Strip(llenas[j]))]

\* FILTRO 3, header row: no cells, or hits_header / len(celdas) >= 0.5
EsEncabezado(fila) ==
  LET celdas == CeldasDeFila(fila)
      hits_header == Len(SelectSeq(celdas, TieneKeyword))
  IN  celdas = <<>> \/ hits_header * 2 >= Len(celdas)

\* FILTRO 3, section title: one cell with content in a table of three
\* columns or more, shorter than 50 characters and without digits
EsTituloDeSeccion(fila) ==
  LET celdas_con_contenido == SelectSeq(fila, ConContenido)
  IN  /\ Len(celdas_con_contenido) = 1
      /\ Len(fila) >= 3
      /\ Len(Strip(celdas_con_contenido[1])) < 50
      /\ ContarDigitos(Strip(celdas_con_contenido[1])) = 0

\* the rows of a table that FILTRO 2 and FILTRO 3 leave
FilasUtiles(t) ==
  SelectSeq(SelectSeq(t, FilaConContenido),
            LAMBDA fila : ~EsEncabezado(fila) /\ ~EsTituloDeSeccion(fila))

\* the tables of a page: the ruled ones, or the ones of the text strategy
\* when there is no ruled one
TablasDePagina(pagina) ==
  IF pagina.tablas # <<>> THEN pagina.tablas ELSE pagina.tablas_texto

RECURSIVE TablasDelPdf(_)
TablasDelPdf(paginas) ==
  IF paginas = <<>> THEN <<>>
  ELSE TablasDePagina(paginas[1]) \o TablasDelPdf(Tail(paginas))

\* The loop over the tables (452-525): dfs is the list of accepted tables,
\* num_cols_referencia the width of the first table that reached FILTRO 5.
\* A table is a list of rows of the same width.
RECURSIVE AceptarTablas(_, _, _)
AceptarTablas(tablas, dfs, num_cols_referencia) ==
  IF tablas = <<>> THEN dfs
  ELSE LET t == tablas[1]
           n_cols == IF t = <<>> THEN 0 ELSE Len(t[1])
           utiles == FilasUtiles(t)
           ref == IF num_cols_referencia = 0 THEN n_cols ELSE num_cols_referencia
       IN  IF t = <<>> \/ n_cols < 2 \/ utiles = <<>>
           THEN AceptarTablas(Tail(tablas), dfs, num_cols_referencia)
           ELSE IF n_cols * 2 < ref
           THEN AceptarTablas(Tail(tablas), dfs, ref)
           ELSE AceptarTablas(Tail(tablas), Append(dfs, utiles), ref)

\* A line of text as the three patterns read it: which pattern matches
\* first ("producto", "numerico", "sin_codigo"), "ninguno" when none does
\* or the line has fewer than 10 characters, and the groups of the match.
Linea(patron, codigo, desc, precio) ==
  [patron |-> patron, codigo |-> codigo, desc |-> desc, precio |-> precio]

PreciosNulos == {<<"0", ",", "0", "0">>, <<"0", ",", "0">>, <<"0">>}

\* the row a line adds to filas_raw, if any (572-607)
FilaRaw(linea) ==
  LET desc == Strip(linea.desc)
  IN  CASE linea.patron = "producto" ->
             IF Len(desc) < 3 \/ linea.precio \in PreciosNulos THEN <<>>
             ELSE <<<<linea.codigo, desc, linea.precio>>>>
        [] linea.patron = "numerico" ->
             IF linea.precio \in PreciosNulos THEN <<>>
             ELSE <<<<linea.codigo, desc, linea.precio>>>>
        [] linea.patron = "sin_codigo" ->
             IF TieneKeyword(Lower(desc)) \/ Len(desc) < 5 \/ linea.precio \in PreciosNulos
             THEN <<>>
             ELSE <<<<<<>>, desc, linea.precio>>>>
        [] OTHER -> <<>>

RECURSIVE FilasRawDe(_)
FilasRawDe(lineas) ==
  IF lineas = <<>> THEN <<>> ELSE FilaRaw(lineas[1]) \o FilasRawDe(Tail(lineas))

RECURSIVE LineasDelPdf(_)
LineasDelPdf(paginas) ==
  IF paginas = <<>> THEN <<>> ELSE paginas[1].lineas \o LineasDelPdf(Tail(paginas))

\* sum(len(df) for df in dfs)
RECURSIVE TotalFilas(_)
TotalFilas(dfs) == IF dfs = <<>> THEN 0 ELSE Len(dfs[1]) + TotalFilas(Tail(dfs))

\* Resolver that always appends the salvage rows
ResolverAnexando(dfs, filas_raw) ==
  IF filas_raw = <<>> THEN dfs ELSE Append(dfs, filas_raw)

\* 609-619: the salvage rows replace the tables when they are more, and
\* are appended otherwise
Resolver(dfs, filas_raw) ==
  IF filas_raw = <<>> THEN dfs
  ELSE IF Len(filas_raw) > TotalFilas(dfs) THEN <<filas_raw>>
  ELSE Append(dfs, filas_raw)

\* a row padded with "" to max_cols cells
Rellenar(fila, max_cols) ==
  [j \in 1..max_cols |-> IF j <= Len(fila) THEN fila[j] ELSE <<>>]

RECURSIVE Concatenar(_, _)
Concatenar(dfs, max_cols) ==
  IF dfs = <<>> THEN <<>>
  ELSE [i \in 1..Len(dfs[1]) |-> Rellenar(dfs[1][i], max_cols)]
         \o Concatenar(Tail(dfs), max_cols)

\* 621-639: pd.concat of the tables brought to the same width
Normalizar_y_concatenar(dfs) ==
  IF dfs = <<>> THEN Grilla(<<>>, <<>>)
  ELSE LET max_cols == CHOOSE n \in {Len(dfs[k][1]) : k \in 1..Len(dfs)} :
                         \A k \in 1..Len(dfs) : Len(dfs[k][1]) <= n
       IN  Grilla([j \in 1..max_cols |-> ToString(j - 1)], Concatenar(dfs, max_cols))

SinLectura == [estado |-> "pendiente", dfs |-> <<>>, filas_raw |-> <<>>, df_total |-> Grilla(<<>>, <<>>)]

\* MotorPrecios._leer_pdf of a document that is not of "EL TALLER"; when
\* pdfplumber raises, the result is pd.DataFrame()
leer_pdf(doc) ==
  IF ~doc.abre THEN [SinLectura EXCEPT !.estado = "error"]
  ELSE LET dfs == AceptarTablas(TablasDelPdf(doc.paginas), <<>>, 0)
           filas_raw == FilasRawDe(LineasDelPdf(doc.paginas))
       IN  [estado |-> "leido", dfs |-> dfs, filas_raw |-> filas_raw,
            df_total |-> Normalizar_y_concatenar(Resolver(dfs, filas_raw))]

Pagina(tablas, tablas_texto, lineas) ==
  [tablas |-> tablas, tablas_texto |-> tablas_texto, lineas |-> lineas]

Pdf(abre, paginas) == [abre |-> abre, paginas |-> paginas]

PdfNulo == Pdf(FALSE, <<>>)

(***************************************************************************)
(* The mobile app: base_datos_mobile.json on disk and the page.            *)
(***************************************************************************)
BaseDatos(estado, lista) == [estado |-> estado, productos |-> lista]

BaseAusente == BaseDatos("ausente", <<>>)

\* ft.Text.value of info_text: the message and the number it shows
InfoText(mensaje, total) == [mensaje |-> mensaje, total |-> total]

SinInfo == InfoText("", 0)

\* no PDF is being read
SinPdf ==
  /\ pdf = PdfNulo
  /\ lectura = SinLectura

\* no app is running
SinApp ==
  /\ base_datos = BaseAusente
  /\ app = "ninguna"
  /\ app_motor = "None"
  /\ app_ui = "sin_construir"
  /\ info_text = SinInfo
  /\ results_column = <<>>
  /\ app_error = "ninguno"

SinPdfNiApp == SinPdf /\ SinApp /\ SinCompaneros

(***************************************************************************)
(* The catalogs and documents the search is checked on.                    *)
(***************************************************************************)
Fila(codigo, producto, costo) ==
  [Codigo |-> codigo, Producto |-> producto, PrecioCosto |-> costo]

\* Normalized rows of each supplier (cost > 0 in cents, stripped product
\* longer than one character), as _limpieza_final leaves them.
FilasBase(nombre) ==
  IF nombre = "Ba"
  THEN << Fila(<<>>, <<"a", "b">>, 100),
          Fila(<<"b">>, <<"a", "B", " ", "a">>, 250),
          Fila(<<>>, <<"b", "a", "b">>, 999),
          Fila(<<>>, <<"a", "a", "b">>, 499) >>
  ELSE << Fila(<<>>, <<"b", "a">>, 333),
          Fila(<<"a">>, <<"a", " ", "b", "a">>, 50),
          Fila(<<>>, <<"a", "b", "a", "b">>, 725),
          Fila(<<>>, <<"b", "b", " ", "a">>, 10) >>

\* the table of n rows of a supplier
Tabla(nombre, n) ==
  LET base == FilasBase(nombre)
  IN  [i \in 1..n |-> base[((i - 1) % Len(base)) + 1]]

\* self.proveedores with n1 rows of "Ba" and n2 rows of "bb"; a supplier
\* whose table is empty is not in the catalog
Catalogo(n1, n2) ==
  (IF n1 > 0 THEN <<[nombre |-> "Ba", filas |-> Tabla("Ba", n1)]>> ELSE <<>>)
    \o (IF n2 > 0 THEN <<[nombre |-> "bb", filas |-> Tabla("bb", n2)]>> ELSE <<>>)

\* base_datos_mobile.json: the rows of the catalog, one record per row
RECURSIVE Aplanar(_)
Aplanar(cat) ==
  IF cat = <<>> THEN <<>>
  ELSE [k \in 1..Len(cat[1].filas) |->
          [codigo |-> cat[1].filas[k].Codigo,
           producto |-> cat[1].filas[k].Producto,
           proveedor |-> cat[1].nombre,
           precio_costo |-> cat[1].filas[k].PrecioCosto]]
         \o Aplanar(Tail(cat))

\* A document with a scalar entry and a record entry whose first discount
\* is negative, and a threshold other than the default.
DocMixto ==
  Doc(ClavesDoc,
      [p \in Proveedores |->
         IF p = "Ba" THEN Num(50) ELSE Dict(ClavesConfig, 30, 0 - 10, 5)],
      25, 80, "ARS", "")

\* A document with record entries only, one of them without "desc2".
DocDescuentos ==
  Doc(ClavesDoc \ {"drive_folder_id"},
      [p \in Proveedores |->
         IF p = "Ba" THEN Dict(ClavesConfig, 30, 10, 5)
                     ELSE Dict({"margen", "desc1"}, 0, 20, 0)],
      20, 50, "USD", "")

\* A document that names the Drive folder and has an entry for "Ba" only.
DocDrive ==
  Doc(ClavesDoc, [p \in {"Ba"} |-> Num(50)], 25, 80, "ARS", "carpeta")

Documentos == {DocAusente, DocCorrupto, DocMixto, DocDescuentos, DocDrive}

\* the documents the search is checked on
DocumentosBusqueda == {DocAusente, DocMixto}

\* The texts a user types: every text of lower-case letters and spaces
\* that strip() leaves as it is, and texts that lower() and strip() change.
ConsultasLimpias ==
  {q \in UNION {[1..k -> Letras \cup {Espacio}] : k \in 0..MaxConsulta} :
     q = <<>> \/ (q[1] # Espacio /\ q[Len(q)] # Espacio)}

ConsultasCrudas ==
  {<<" ">>, <<" ", " ">>, <<"B">>, <<"a", "B">>, <<" ", "B", "a", " ">>,
   <<" ", "a", "b", "a", "b", " ">>, <<"B", "a", "B", " ", "a">>}

Consultas == ConsultasLimpias \cup ConsultasCrudas

Limites == 1..MaxLimite

Targets == {SinProveedor, "bb"}

LlamadaNula ==
  [motor |-> "", consulta |-> <<>>, limite |-> 0, proveedor_target |-> SinProveedor]

\* Both engines constructed on one document and one catalog.
InitBusqueda ==
  \E doc \in DocumentosBusqueda, n1 \in {0, MaxFilas}, n2 \in {0, MaxFilas} :
    LET cfg == CargarMargenes(doc, AtributosIniciales)
        lite == LiteCargarMargenes(doc, LiteAtributosIniciales)
    IN  /\ archivo_margenes = doc
        /\ margenes = cfg.margenes
        /\ margen_default = cfg.margen_default
        /\ umbral_fuzzy = cfg.umbral_fuzzy
        /\ moneda = cfg.moneda
        /\ drive_folder_id = cfg.drive_folder_id
        /\ proveedores = Catalogo(n1, n2)
        /\ productos = Aplanar(Catalogo(n1, n2))
        /\ lite_margenes = lite.margenes
        /\ lite_margen_default = lite.margen_default
        /\ pc = "listo"
        /\ llamada = LlamadaNula
        /\ exactos = <<>>
        /\ fuzzy = <<>>
        /\ fuzzy_corrio = FALSE
        /\ retorno = <<>>
        /\ directorio = [f \in ConjuntoArchivos |-> ArchivoAusente]
        /\ cache = [p \in Proveedores |-> PickleAusente]
        /\ reloj = 0
        /\ motor = "listo"
        /\ trabajos = <<>>
        /\ ultimo = [op |-> "init", ok |-> TRUE]
        /\ parseados = {}
        /\ validos_previos = {}
        /\ estable = 0
        /\ catalogo_previo = <<>>
        /\ cambios = 0
        /\ reescritos = {}
        /\ actualizaciones = 0
        /\ verificar = SinVerificar
        /\ grilla = GrillaNula
        /\ mapeo_manual = SinMapeo
        /\ tabla = SinTabla
        /\ indices_muestra = <<>>
        /\ SinPdfNiApp

NextBusqueda ==
  \/ \E q \in Consultas, L \in Limites, t \in Targets : Buscar(q, L, t)
  \/ \E q \in Consultas, L \in Limites : LiteBuscar(q, L)
  \/ Retornar

SpecBusqueda == InitBusqueda /\ [][NextBusqueda]_vars

(***************************************************************************)
(* Properties of search (SpecBusqueda).                                    *)
(***************************************************************************)
Retornado(cual) == pc = "retornado" /\ llamada.motor = cual

\* the hits of phase 1 followed by the hits of phase 2
Todos == exactos \o fuzzy

\* whether hit h is one of the hits the fuzzy phase appended
EsFuzzy(h) == \E k \in 1..Len(fuzzy) : fuzzy[k] = h

EsExacto(h) == \E k \in 1..Len(exactos) : exactos[k] = h

\* the number of times h occurs in seq
Veces(seq, h) == Cardinality({k \in 1..Len(seq) : seq[k] = h})

\* C1: a search returns at most `limite` hits, in MotorPrecios and in
\* MotorMobileLite.
C1_AlMenosLimite == pc = "retornado" => Len(retorno) <= llamada.limite

\* a MotorPrecios search that found more hits than `limite` and returned
\* exactly `limite` of them
C1_Witness ==
  /\ Retornado("MotorPrecios")
  /\ Len(Todos) > llamada.limite
  /\ Len(retorno) = llamada.limite

\* C2: in the returned list every hit whose product or code contains the
\* lower-cased query has score 100, and every hit of the fuzzy phase has a
\* score >= umbral_fuzzy and < 100.
C2_ScoresPorFase ==
  Retornado("MotorPrecios") =>
    \A i \in 1..Len(retorno) :
      LET h == retorno[i]
          consulta == Normalizar(llamada.consulta)
      IN  /\ (Contains(Lower(h.producto), consulta)
                \/ Contains(Lower(h.codigo), consulta))
             => h.score_busqueda = ScoreExacto
          /\ EsFuzzy(h) => /\ h.score_busqueda >= umbral_fuzzy
                           /\ h.score_busqueda < ScoreExacto

\* the price the formula gives, in cents, with no discount skipped
PrecioFormula(c, k) ==
  RoundDiv(c * (100 - k.desc1) * (100 - k.desc2) * (100 + k.margen), 1000000)

\* C3: every hit carries precio_final = round(c*(1-d1/100)*(1-d2/100)*
\* (1+m/100), 2) for the configuration obtener_info_config yields, in both
\* engines.
C3_PrecioFormula ==
  /\ Retornado("MotorPrecios") =>
       \A i \in 1..Len(retorno) :
         retorno[i].precio_final =
           PrecioFormula(retorno[i].precio_costo,
                         obtener_info_config(retorno[i].proveedor))
  /\ Retornado("MotorMobileLite") =>
       \A i \in 1..Len(retorno) :
         retorno[i].precio_final =
           PrecioFormula(retorno[i].precio_costo,
                         lite_obtener_info_config(retorno[i].proveedor))

\* C4: a search whose query is empty after strip() returns the empty list.
C4_ConsultaVacia ==
  (pc = "retornado" /\ Normalizar(llamada.consulta) = <<>>) => retorno = <<>>

C6_OrdenYCorte ==
  Retornado("MotorPrecios") =>
    /\ \A i, j \in 1..Len(retorno) :
         i < j => retorno[i].score_busqueda >= retorno[j].score_busqueda
    /\ Len(retorno) = Min2(llamada.limite, Len(Todos))
    /\ \A i \in 1..Len(retorno) :
         Veces(retorno, retorno[i]) <= Veces(Todos, retorno[i])
    /\ \A k \in 1..Len(Todos) :
         Veces(retorno, Todos[k]) < Veces(Todos, Todos[k]) =>
           \A i \in 1..Len(retorno) :
             retorno[i].score_busqueda >= Todos[k].score_busqueda
    /\ \A i, j \in 1..Len(retorno) :
         i < j => ~(EsFuzzy(retorno[i]) /\ EsExacto(retorno[j]))

\* a substring hit and a fuzzy hit of lower score, both returned, the
\* substring hit first
C6_Witness ==
  /\ Retornado("MotorPrecios")
  /\ Len(retorno) = Len(Todos)
  /\ \E i, j \in 1..Len(retorno) :
       /\ i < j
       /\ EsExacto(retorno[i])
       /\ EsFuzzy(retorno[j])
       /\ retorno[j].score_busqueda < ScoreExacto
       /\ retorno[j].score_busqueda >= umbral_fuzzy

(***************************************************************************)
(* Loading the suppliers: MotorPrecios._cargar_proveedores.  The tasks of  *)
(* executor.map run in parallel; each takes two steps, the cache check and *)
(* the processing of the file, and the results are collected once every    *)
(* task has ended.                                                         *)
(***************************************************************************)
\* one task of executor.map(procesar_un_archivo, archivos)
Trabajo(archivo) == [archivo |-> archivo, pc |-> "cache", resultado |-> SinResultado]

\* archivos: the files of the directory, in the order of os.listdir
RECURSIVE ListarDesde(_)
ListarDesde(i) ==
  IF i > Len(NombresArchivos) THEN <<>>
  ELSE (IF directorio[NombresArchivos[i]].existe
        THEN <<Trabajo(NombresArchivos[i])>> ELSE <<>>) \o ListarDesde(i + 1)

Listar == ListarDesde(1)

\* CacheMasNuevo with the comparison turned round
CacheMasViejo(mtime_cache, mtime_org) == mtime_cache < mtime_org

\* "if mtime_cache > mtime_org"
CacheMasNuevo(mtime_cache, mtime_org) == mtime_cache > mtime_org

\* whether procesar_un_archivo would return the cache entry for file f
CacheUsable(f) ==
  /\ directorio[f].existe
  /\ cache[Stem(f)].existe
  /\ CacheMasNuevo(cache[Stem(f)].mtime, directorio[f].mtime)
  /\ cache[Stem(f)].legible

\* First step of task i: the cache check.  With a cache entry and the
\* source gone, os.path.getmtime(ruta) raises out of the task.
RevisarCache(i) ==
  /\ motor = "cargando"
  /\ i \in 1..Len(trabajos)
  /\ trabajos[i].pc = "cache"
  /\ LET f == trabajos[i].archivo
         c == cache[Stem(f)]
     IN  trabajos' =
           [trabajos EXCEPT ![i] =
              IF c.existe /\ ~directorio[f].existe
              THEN [@ EXCEPT !.pc = "error"]
              ELSE IF CacheUsable(f)
              THEN [@ EXCEPT !.pc = "listo",
                             !.resultado = Resultado(Stem(f), c.filas)]
              ELSE [@ EXCEPT !.pc = "procesar"]]
  /\ UNCHANGED <<vars_config, proveedores, vars_lite, vars_inferencia, vars_pdf, vars_app, vars_companero, vars_llamada,
                 directorio, cache, reloj, motor, ultimo, vars_historia>>

\* Inferir that finds a row in every file
InferirSiempre(f) == Tabla(Stem(f), Max2(1, directorio[f].filas))

\* df.iloc[skip:] of the manual mode
Saltar(filas, skip) == SubSeq(filas, skip + 1, Len(filas))

\* what reader and schema inference give for file f: the table, empty when
\* the file is not a price table; with a companion mapping, the table
\* without the rows the mapping skips
Inferir(f) == Saltar(Tabla(Stem(f), directorio[f].filas), companeros[f])

\* the ways df_final.to_pickle(ruta_cache) ends
Escrituras == {"escrito", "fallo", "parcial"}

\* the cache entry after the write of task `f` ended as `como` at time t
CacheEscrito(f, df, como, t) ==
  IF como = "escrito" THEN Pickle(TRUE, t, TRUE, df, f)
  ELSE IF como = "parcial" THEN Pickle(TRUE, t, FALSE, <<>>, f)
  ELSE cache[Stem(f)]

\* Second step of task i: read the file, infer the schema and, when the
\* table is not empty, write the cache entry (best effort).  A reader that
\* raises, or an empty table, ends the task with None.
Procesar(i, como, avance) ==
  /\ motor = "cargando"
  /\ i \in 1..Len(trabajos)
  /\ trabajos[i].pc = "procesar"
  /\ LET f == trabajos[i].archivo
         falla == ~directorio[f].existe \/ ~directorio[f].legible
         df == IF falla THEN <<>> ELSE Inferir(f)
     IN  /\ parseados' = parseados \cup {f}
         /\ IF df = <<>>
            THEN /\ como = "fallo"
                 /\ avance = 0
                 /\ trabajos' = [trabajos EXCEPT ![i] = [@ EXCEPT !.pc = "listo"]]
                 /\ UNCHANGED <<cache, reloj, reescritos>>
            ELSE /\ reloj + avance <= MaxReloj
                 /\ (como # "escrito" => avance = 0)
                 /\ reloj' = reloj + avance
                 /\ reescritos' = IF como = "fallo" THEN reescritos
                                   ELSE reescritos \cup {Stem(f)}
                 /\ cache' = [cache EXCEPT
                                ![Stem(f)] = CacheEscrito(f, df, como, reloj + avance)]
                 /\ trabajos' = [trabajos EXCEPT ![i] =
                                   [@ EXCEPT !.pc = "listo",
                                             !.resultado = Resultado(Stem(f), df)]]
  /\ UNCHANGED <<vars_config, proveedores, vars_lite, vars_inferencia, vars_pdf, vars_app, vars_companero, vars_llamada,
                 directorio, motor, ultimo, validos_previos, estable,
                 catalogo_previo, cambios, actualizaciones, verificar>>

\* self.proveedores[res[0]] = res[1]: a new key goes last, a known key
\* keeps its place and takes the new table
Asignar(cat, nombre, filas) ==
  IF \E k \in 1..Len(cat) : cat[k].nombre = nombre
  THEN [k \in 1..Len(cat) |->
          IF cat[k].nombre = nombre THEN [nombre |-> nombre, filas |-> filas]
                                    ELSE cat[k]]
  ELSE Append(cat, [nombre |-> nombre, filas |-> filas])

\* "for res in resultados: if res: self.proveedores[res[0]] = res[1]"
RECURSIVE Recolectar(_, _)
Recolectar(i, cat) ==
  IF i > Len(trabajos) THEN cat
  ELSE Recolectar(i + 1,
         IF trabajos[i].resultado.hay
         THEN Asignar(cat, trabajos[i].resultado.nombre, trabajos[i].resultado.filas)
         ELSE cat)

\* the files that have, as the directory and the cache stand, a readable
\* cache entry strictly newer than the file
Vigentes ==
  {f \in ConjuntoArchivos :
     /\ directorio[f].existe
     /\ cache[Stem(f)].existe
     /\ cache[Stem(f)].legible
     /\ cache[Stem(f)].mtime > directorio[f].mtime}

\* The join: every task has ended.  A task that raised makes
\* list(executor.map(...)) raise and self.proveedores stays empty; raised
\* out of __init__, the exception leaves no engine.
Unir ==
  /\ motor = "cargando"
  /\ \A i \in 1..Len(trabajos) : trabajos[i].pc \in {"listo", "error"}
  /\ LET error == \E i \in 1..Len(trabajos) : trabajos[i].pc = "error"
     IN  /\ proveedores' = IF error THEN proveedores ELSE Recolectar(1, proveedores)
         /\ ultimo' = [op |-> ultimo.op, ok |-> ~error]
         /\ estable' = IF error \/ ultimo.op = "init" THEN 0
                       ELSE Min2(estable + 1, 2)
         /\ motor' = IF error /\ ultimo.op = "init" THEN "caido" ELSE "listo"
  /\ trabajos' = <<>>
  /\ UNCHANGED <<vars_config, vars_lite, vars_inferencia, vars_pdf, vars_app, vars_companero, vars_llamada, directorio, cache, reloj,
                 validos_previos, parseados, reescritos, catalogo_previo, cambios,
                 actualizaciones, verificar>>

\* MotorPrecios.__init__ from "self._cargar_margenes()" to the listing of
\* the directory in _cargar_proveedores
Construir ==
  /\ motor = "nuevo"
  /\ LET cfg == CargarMargenes(archivo_margenes, AtributosIniciales)
     IN  /\ margenes' = cfg.margenes
         /\ margen_default' = cfg.margen_default
         /\ umbral_fuzzy' = cfg.umbral_fuzzy
         /\ moneda' = cfg.moneda
         /\ drive_folder_id' = cfg.drive_folder_id
  /\ proveedores' = <<>>
  /\ trabajos' = Listar
  /\ motor' = "cargando"
  /\ ultimo' = [op |-> "init", ok |-> FALSE]
  /\ parseados' = {}
  /\ reescritos' = {}
  /\ UNCHANGED <<archivo_margenes, vars_lite, vars_inferencia, vars_pdf, vars_app, vars_companero, vars_llamada, directorio, cache,
                 reloj, validos_previos, estable, catalogo_previo, cambios,
                 actualizaciones, verificar>>

\* MotorPrecios.recargar up to the listing of the directory:
\* proveedores.clear(), margenes.clear(), _cargar_margenes(), and the start
\* of _cargar_proveedores
Recargar ==
  /\ motor = "listo"
  /\ LET cfg == CargarMargenes(archivo_margenes,
                  [margenes |-> MapaVacio, margen_default |-> margen_default,
                   umbral_fuzzy |-> umbral_fuzzy, moneda |-> moneda,
                   drive_folder_id |-> drive_folder_id])
     IN  /\ margenes' = cfg.margenes
         /\ margen_default' = cfg.margen_default
         /\ umbral_fuzzy' = cfg.umbral_fuzzy
         /\ moneda' = cfg.moneda
         /\ drive_folder_id' = cfg.drive_folder_id
  /\ catalogo_previo' = proveedores
  /\ proveedores' = <<>>
  /\ trabajos' = Listar
  /\ motor' = "cargando"
  /\ ultimo' = [op |-> "recargar", ok |-> FALSE]
  /\ parseados' = {}
  /\ reescritos' = {}
  /\ verificar' = IF verificar.fase = "actualizado"
                  THEN [verificar EXCEPT !.fase = "recargado"]
                  ELSE SinVerificar
  /\ validos_previos' = Vigentes
  /\ UNCHANGED <<archivo_margenes, vars_lite, vars_inferencia, vars_pdf, vars_app, vars_companero, vars_llamada, directorio, cache,
                 reloj, estable, cambios, actualizaciones>>

(***************************************************************************)
(* Updating a margin: MotorPrecios.actualizar_margen and _guardar_margenes. *)
(***************************************************************************)
\* EntradaMargen that never stores a record
EntradaMargenEscalar(margen, desc1, desc2) == Num(margen)

\* the entry actualizar_margen stores: a record when there is a discount,
\* the bare margin otherwise
EntradaMargen(margen, desc1, desc2) ==
  IF desc1 > 0 \/ desc2 > 0 THEN Dict(ClavesConfig, margen, desc1, desc2)
                            ELSE Num(margen)

\* self.margenes[proveedor] = entrada
PonerMargen(mapa, proveedor, entrada) ==
  [p \in DOMAIN mapa \cup {proveedor} |->
     IF p = proveedor THEN entrada ELSE mapa[p]]

\* the document _guardar_margenes builds from the attributes
DocGuardado(mapa) ==
  Doc({"margenes_por_proveedor", "margen_default", "moneda",
       "umbral_busqueda_fuzzy"},
      mapa, margen_default, umbral_fuzzy, moneda, "")

\* the file after open(archivo, "w") and json.dump ended as `como`: open()
\* raising leaves the file, a dump cut short leaves a truncated one
DocEscrito(mapa, como) ==
  IF como = "escrito" THEN DocGuardado(mapa)
  ELSE IF como = "parcial" THEN DocCorrupto
  ELSE archivo_margenes

\* the values the callers pass to actualizar_margen
MargenesEntrada == {0, 35}
Desc1Entrada == {0 - 10, 0, 10}
Desc2Entrada == {0, 5}

ActualizarMargen(proveedor, margen, desc1, desc2, como) ==
  /\ motor = "listo"
  /\ actualizaciones < MaxActualizaciones
  /\ actualizaciones' = actualizaciones + 1
  /\ margenes' = PonerMargen(margenes, proveedor, EntradaMargen(margen, desc1, desc2))
  /\ archivo_margenes' = DocEscrito(margenes', como)
  /\ ultimo' = [op |-> "actualizar", ok |-> como = "escrito"]
  /\ verificar' = [fase |-> IF como = "escrito" THEN "actualizado" ELSE "fallido",
                    proveedor |-> proveedor, margen |-> margen,
                    desc1 |-> desc1, desc2 |-> desc2,
                    antes |-> archivo_margenes]
  /\ UNCHANGED <<margen_default, umbral_fuzzy, moneda, drive_folder_id,
                 proveedores, vars_lite, vars_inferencia, vars_pdf, vars_app, vars_companero, vars_llamada, vars_ingesta_sin_ultimo,
                 parseados, reescritos, validos_previos, estable,
                 catalogo_previo, cambios>>

(***************************************************************************)
(* The environment: the user and the Drive synchronisation change the      *)
(* input directory and the document behind the engine's back.              *)
(***************************************************************************)
\* what a file may hold: <<legible, filas>>
Contenidos == {<<TRUE, 2>>, <<FALSE, 0>>}

\* the stability count after a change of the directory: a load under way
\* has seen a changing directory and does not count
Perturbado == IF motor = "cargando" THEN 0 - 1 ELSE 0

\* the file is written now: its modification time is the clock's reading
EditarArchivo(f, contenido) ==
  /\ cambios < MaxCambios
  /\ directorio[f] # Archivo(TRUE, reloj, contenido[1], contenido[2])
  /\ cambios' = cambios + 1
  /\ directorio' = [directorio EXCEPT
                      ![f] = Archivo(TRUE, reloj, contenido[1], contenido[2])]
  /\ estable' = Perturbado
  /\ UNCHANGED <<vars_config, proveedores, vars_lite, vars_inferencia, vars_pdf, vars_app, vars_companero, vars_llamada, cache,
                 reloj, motor, trabajos, ultimo, parseados, reescritos,
                 validos_previos, catalogo_previo, actualizaciones, verificar>>

BorrarArchivo(f) ==
  /\ cambios < MaxCambios
  /\ directorio[f].existe
  /\ cambios' = cambios + 1
  /\ directorio' = [directorio EXCEPT ![f] = ArchivoAusente]
  /\ estable' = Perturbado
  /\ UNCHANGED <<vars_config, proveedores, vars_lite, vars_inferencia, vars_pdf, vars_app, vars_companero, vars_llamada, cache,
                 reloj, motor, trabajos, ultimo, parseados, reescritos,
                 validos_previos, catalogo_previo, actualizaciones,
                 verificar>>

EditarDoc(doc) ==
  /\ cambios < MaxCambios
  /\ doc # archivo_margenes
  /\ cambios' = cambios + 1
  /\ archivo_margenes' = doc
  /\ verificar' = SinVerificar
  /\ UNCHANGED <<margenes, margen_default, umbral_fuzzy, moneda,
                 drive_folder_id, proveedores, vars_lite, vars_inferencia, vars_pdf, vars_app, vars_companero, vars_llamada,
                 vars_ingesta, parseados, reescritos, validos_previos, estable,
                 catalogo_previo, actualizaciones>>

(***************************************************************************)
(* The engine over its life.  Ingestion: construction and reloads over a   *)
(* directory the environment changes.  Configuration: construction,        *)
(* reloads and margin updates over an empty directory and a document the   *)
(* environment changes.                                                    *)
(***************************************************************************)
\* the directories the engine is started on: two files of one supplier, and
\* a file that is not a price table next to one that is; every file is as
\* old as the first cache entry can be
DirectoriosIniciales ==
  {[f \in ConjuntoArchivos |->
      IF f = "Ba.csv" THEN d[1] ELSE IF f = "Ba.pdf" THEN d[2] ELSE d[3]] :
     d \in {<<Archivo(TRUE, 0, TRUE, 1), Archivo(TRUE, 0, TRUE, 2), ArchivoAusente>>,
            <<Archivo(TRUE, 0, TRUE, 0), ArchivoAusente, Archivo(TRUE, 0, TRUE, 1)>>}}

DirectorioVacio == [f \in ConjuntoArchivos |-> ArchivoAusente]

\* the state when MotorPrecios.__init__ has set its attributes
\* the engine before construction; no schema inference is under way
InitSinInferencia(doc, dir) ==
  /\ archivo_margenes = doc
  /\ margenes = AtributosIniciales.margenes
  /\ margen_default = AtributosIniciales.margen_default
  /\ umbral_fuzzy = AtributosIniciales.umbral_fuzzy
  /\ moneda = AtributosIniciales.moneda
  /\ drive_folder_id = AtributosIniciales.drive_folder_id
  /\ proveedores = <<>>
  /\ productos = <<>>
  /\ lite_margenes = LiteAtributosIniciales.margenes
  /\ lite_margen_default = LiteAtributosIniciales.margen_default
  /\ pc = "listo"
  /\ llamada = LlamadaNula
  /\ exactos = <<>>
  /\ fuzzy = <<>>
  /\ fuzzy_corrio = FALSE
  /\ retorno = <<>>
  /\ directorio = dir
  /\ cache = [p \in Proveedores |-> PickleAusente]
  /\ reloj = 0
  /\ motor = "nuevo"
  /\ trabajos = <<>>
  /\ ultimo = [op |-> "init", ok |-> FALSE]
  /\ parseados = {}
  /\ reescritos = {}
  /\ validos_previos = {}
  /\ estable = 0
  /\ catalogo_previo = <<>>
  /\ cambios = 0
  /\ actualizaciones = 0
  /\ verificar = SinVerificar

InitMotor(doc, dir) ==
  /\ InitSinInferencia(doc, dir)
  /\ SinPdfNiApp
  /\ grilla = GrillaNula
  /\ mapeo_manual = SinMapeo
  /\ tabla = SinTabla
  /\ indices_muestra = <<>>

InitIngesta == \E dir \in DirectoriosIniciales : InitMotor(DocDescuentos, dir)

NextIngesta ==
  \/ Construir
  \/ Recargar
  \/ \E i \in 1..Len(NombresArchivos) : RevisarCache(i)
  \/ \E i \in 1..Len(NombresArchivos), como \in Escrituras, avance \in {0, 1} :
       Procesar(i, como, avance)
  \/ Unir
  \/ \E f \in ConjuntoArchivos, contenido \in Contenidos :
       EditarArchivo(f, contenido)
  \/ \E f \in ConjuntoArchivos : BorrarArchivo(f)

SpecIngesta == InitIngesta /\ [][NextIngesta]_vars

InitConfig == \E doc \in Documentos : InitMotor(doc, DirectorioVacio)

NextConfig ==
  \/ Construir
  \/ Recargar
  \/ Unir
  \/ \E proveedor \in Proveedores, margen \in MargenesEntrada,
        desc1 \in Desc1Entrada, desc2 \in Desc2Entrada, como \in Escrituras :
       ActualizarMargen(proveedor, margen, desc1, desc2, como)
  \/ \E doc \in Documentos : EditarDoc(doc)

SpecConfig == InitConfig /\ [][NextConfig]_vars

(***************************************************************************)
(* Properties of reloads and of margin updates.                            *)
(***************************************************************************)
\* dict equality of two catalogs: same keys, same rows per key
MismoCatalogo(a, b) ==
  {a[k] : k \in 1..Len(a)} = {b[k] : k \in 1..Len(b)}

\* a recargar() that follows a completed recargar() with no change of the
\* directory since the earlier one began: under way, or completed
RecargaRepetida ==
  /\ ultimo.op = "recargar"
  /\ \/ motor = "cargando" /\ estable >= 1
     \/ motor = "listo" /\ estable >= 2 /\ ultimo.ok

\* C8: reload is idempotent.  When recargar() has completed after a
\* completed recargar() on a directory that did not change, the catalog
\* equals the catalog the first recargar() left.
C8_RecargaIdempotente ==
  (RecargaRepetida /\ motor = "listo") => MismoCatalogo(proveedores, catalogo_previo)

\* C9 as stated: a recargar() that follows a completed recargar() on an
\* unchanged directory runs the reader on no file.
C9_NadaReparseado == RecargaRepetida => parseados = {}

\* C9 as the code has it: in a recargar() that follows a completed
\* recargar() on an unchanged directory, the reader runs only on files that
\* had no readable cache entry strictly newer than the file when the reload
\* began, or whose supplier's cache entry was written again in this reload.
C9_SoloSinCacheVigente ==
  [][(motor = "cargando" /\ ultimo.op = "recargar" /\ estable >= 1)
       => \A f \in parseados' \ parseados :
            f \notin validos_previos \/ Stem(f) \in reescritos]_vars

\* a repeated reload has completed in which one file came from its cache
\* entry and the reader ran on another
C9_Witness ==
  /\ RecargaRepetida
  /\ motor = "listo"
  /\ parseados # {}
  /\ \E f \in validos_previos : f \notin parseados /\ directorio[f].existe
  /\ Len(proveedores) > 0

\* C10: round trip of update_margin.  After actualizar_margen(s, m, d1, d2)
\* with non-negative m, d1, d2 has written the document and recargar() has
\* followed, obtener_info_config(s) is {margen: m, desc1: d1, desc2: d2}.
C10_IdaYVuelta ==
  (/\ verificar.fase = "recargado"
   /\ verificar.margen >= 0
   /\ verificar.desc1 >= 0
   /\ verificar.desc2 >= 0)
    => obtener_info_config(verificar.proveedor)
         = [margen |-> verificar.margen, desc1 |-> verificar.desc1,
            desc2 |-> verificar.desc2]

\* recargar() has completed after an update that stored a record
C10_Witness ==
  /\ verificar.fase = "recargado"
  /\ motor = "listo"
  /\ ultimo = [op |-> "recargar", ok |-> TRUE]
  /\ verificar.desc1 > 0
  /\ verificar.desc2 = 0
  /\ verificar.proveedor \in DOMAIN margenes
  /\ margenes[verificar.proveedor].tipo = "dict"
  /\ obtener_info_config(verificar.proveedor).desc1 = verificar.desc1

\* C11: a configuration update preserves what it does not touch.  When
\* actualizar_margen(s, ...) has written the document, and nobody but the
\* engine wrote it before, every top-level key the previous document had
\* apart from the map is still there with its value, and so is the entry of
\* every supplier other than s.
C11_PreservaClaves ==
  (/\ verificar.fase = "actualizado"
   /\ verificar.antes.estado = "ok"
   /\ cambios = 0)
    => /\ archivo_margenes.estado = "ok"
       /\ \A k \in verificar.antes.claves \ {"margenes_por_proveedor"} :
            k \in archivo_margenes.claves /\ archivo_margenes[k] = verificar.antes[k]
       /\ \A p \in DOMAIN verificar.antes.margenes_por_proveedor \ {verificar.proveedor} :
            /\ p \in DOMAIN archivo_margenes.margenes_por_proveedor
            /\ archivo_margenes.margenes_por_proveedor[p]
                 = verificar.antes.margenes_por_proveedor[p]

\* C12: persistence is atomic.  After actualizar_margen, whether its write
\* completed or not, the file holds the complete previous document or the
\* complete new one.
C12_EscrituraAtomica ==
  verificar.fase \in {"actualizado", "fallido"}
    => \/ archivo_margenes = verificar.antes
       \/ archivo_margenes = DocGuardado(margenes)

\* C15: a single bad file never aborts the load.  Whenever a load ends, it
\* ends well and the catalog has an entry for every task that returned a
\* table.
C15_CargaCompleta ==
  [][(motor = "cargando" /\ motor' # "cargando")
       => /\ ultimo'.ok
          /\ \A i \in 1..Len(trabajos) :
               trabajos[i].resultado.hay
                 => \E k \in 1..Len(proveedores') :
                      proveedores'[k].nombre = trabajos[i].resultado.nombre]_vars

\* C18: a missing or unparseable document means defaults.  Whenever the
\* constructor or recargar() loads the configuration and finds the document
\* missing or not JSON, the engine is left with an empty map of margins,
\* margen_default = 20 and umbral_fuzzy = 60.
C18_DefaultsSinDocumento ==
  [][(motor # "cargando" /\ motor' = "cargando" /\ archivo_margenes.estado # "ok")
       => /\ margenes' = MapaVacio
          /\ margen_default' = 20
          /\ umbral_fuzzy' = 60]_vars

\* the reader raises on f, or inference gets no row out of it
Rechazado(f) ==
  ~directorio[f].existe \/ ~directorio[f].legible \/ directorio[f].filas = 0

\* task i takes its second step, the processing of its file
PasoProcesar(i) ==
  /\ i \in 1..Len(trabajos)
  /\ Len(trabajos') = Len(trabajos)
  /\ trabajos[i].pc = "procesar"
  /\ trabajos'[i].pc = "listo"

\* C19: the life of a file.  A cache entry is written only by the task of
\* a file that was normalized, with that file's table; the task of a
\* rejected file (the reader raised, or inference gave no row) returns
\* nothing, writes no cache entry and leaves the other tasks as they were;
\* and the join puts in the catalog exactly the suppliers some task
\* returned a table for.
C19_VidaDeUnArchivo ==
  [][/\ \A p \in Proveedores :
          cache'[p] # cache[p]
            => \E i \in 1..Len(trabajos) :
                 /\ PasoProcesar(i)
                 /\ Stem(trabajos[i].archivo) = p
                 /\ ~Rechazado(trabajos[i].archivo)
                 /\ trabajos'[i].resultado.hay
                 /\ cache'[p].origen = trabajos[i].archivo
                 /\ cache'[p].legible => cache'[p].filas = trabajos'[i].resultado.filas
     /\ \A i \in 1..Len(trabajos) :
          (PasoProcesar(i) /\ Rechazado(trabajos[i].archivo))
            => /\ trabajos'[i].resultado = SinResultado
               /\ cache' = cache
               /\ \A j \in 1..Len(trabajos) : j # i => trabajos'[j] = trabajos[j]
     /\ (motor = "cargando" /\ motor' = "listo" /\ ultimo'.ok)
          => {proveedores'[k].nombre : k \in 1..Len(proveedores')}
               = {trabajos[i].resultado.nombre :
                    i \in {j \in 1..Len(trabajos) : trabajos[j].resultado.hay}}
    ]_vars

\* a load has ended in which one file was rejected, and is neither cached
\* nor in the catalog, and another was normalized, cached and joined
C19_Witness ==
  /\ motor = "listo"
  /\ ultimo.ok
  /\ \E f \in parseados, g \in parseados :
       /\ Rechazado(f)
       /\ ~cache[Stem(f)].existe
       /\ \A k \in 1..Len(proveedores) : proveedores[k].nombre # Stem(f)
       /\ ~Rechazado(g)
       /\ cache[Stem(g)].existe
       /\ cache[Stem(g)].origen = g
       /\ \E k \in 1..Len(proveedores) : proveedores[k].nombre = Stem(g)

\* the catalog gets entries only when every task of the load has ended
Barrera ==
  (proveedores' # proveedores /\ proveedores' # <<>>)
    => /\ motor = "cargando"
       /\ \A i \in 1..Len(trabajos) : trabajos[i].pc \in {"listo", "error"}

\* task i takes, in its cache check, a table that the task of another file
\* wrote during this same load
LeeDeOtro(i) ==
  /\ i \in 1..Len(trabajos)
  /\ Len(trabajos') = Len(trabajos)
  /\ trabajos[i].pc = "cache"
  /\ trabajos'[i].resultado.hay
  /\ Stem(trabajos[i].archivo) \in reescritos
  /\ cache[Stem(trabajos[i].archivo)].origen # trabajos[i].archivo

\* C20: ingestion is a fork-join.  The catalog receives its first entry
\* only after every task has ended, and no task takes what another task of
\* the same load produced.
C20_ForkJoin ==
  [][Barrera /\ \A i \in 1..Len(trabajos) : ~LeeDeOtro(i)]_vars

(***************************************************************************)
(* Readers next to a reload: buscar_producto called from another thread    *)
(* while recargar() runs.  The engine takes no lock.                       *)
(***************************************************************************)
\* the queries of the concurrent reader
ConsultasLectura == {<<"a">>, <<"b", "a", "b">>}

\* a query of a thread that holds the engine: once the constructor has
\* returned, also while recargar() is under way
Consultar(consulta, limite, target) ==
  /\ \/ motor = "listo"
     \/ motor = "cargando" /\ ultimo.op = "recargar"
  /\ Buscar(consulta, limite, target)

InitLectura == InitIngesta

NextLectura ==
  \/ Construir
  \/ Recargar
  \/ \E i \in 1..Len(NombresArchivos) : RevisarCache(i)
  \/ \E i \in 1..Len(NombresArchivos), como \in Escrituras, avance \in {0, 1} :
       Procesar(i, como, avance)
  \/ Unir
  \/ \E q \in ConsultasLectura, L \in Limites, t \in Targets : Consultar(q, L, t)
  \/ Retornar

SpecLectura == InitLectura /\ [][NextLectura]_vars

\* C16: a reload swaps the catalog atomically.  A query that runs while
\* recargar() is under way reads the complete catalog of before the reload
\* (the one of after it does not exist yet).
C16_SnapshotAtomico ==
  [][(pc = "listo" /\ pc' = "retornado" /\ motor = "cargando")
       => MismoCatalogo(proveedores, catalogo_previo)]_vars


(***************************************************************************)
(* Schema inference on its own: one call of                                *)
(* _procesar_dataframe_inteligente on a grid and a companion mapping.      *)
(***************************************************************************)

\* the characters of the price cells that are enumerated in full
CaracteresPrecio == {"0", "1", ",", ".", "-", "$"}
TextosPrecio == UNION {[1..k -> CaracteresPrecio] : k \in 0..MaxPrecio}

\* rows of three cells (code, product, price) the grids are cut from
FilasDeGrilla ==
  { <<<<"a", "1">>, <<"a", "b", "a", "b">>, <<"1", ",", "5">>>>,
    <<<<"1", "0">>, <<"a", "b", " ", "b", "a">>, <<"0">>>>,
    <<NAN, NAN, NAN>>,
    <<<<"b", "2">>, <<" ", "a", " ">>, <<"1", ".", "0", "0", "0">>>> }

SecuenciasDeFilas == UNION {[1..k -> FilasDeGrilla] : k \in 1..MaxFilasGrilla}

\* the columns kept, in the order they are laid out
Proyecciones ==
  { <<1>>, <<2>>, <<3>>, <<2, 3>>, <<3, 2>>, <<1, 2>>,
    <<1, 2, 3>>, <<2, 3, 1>>, <<2, 1, 3>> }

\* the labels of a grid read with header=None
EtiquetasEnteras == <<"0", "1", "2", "3">>

Proyectar(filas, proy) ==
  [i \in 1..Len(filas) |-> [j \in 1..Len(proy) |-> filas[i][proy[j]]]]

\* grids of one, two and three columns; grids an extractor already named;
\* the grid of a file without rows
GrillasDeForma ==
  {Grilla(SubSeq(EtiquetasEnteras, 1, Len(proy)), Proyectar(filas, proy)) :
     filas \in SecuenciasDeFilas, proy \in Proyecciones}
  \cup {Grilla(<<"Codigo", "Producto", "Precio de Costo">>, filas) :
          filas \in SecuenciasDeFilas}
  \cup {Grilla(<<"Producto", "Precio de Costo">>, Proyectar(filas, <<2, 3>>)) :
          filas \in SecuenciasDeFilas}
  \cup {Grilla(<<>>, <<>>), Grilla(SubSeq(EtiquetasEnteras, 1, 3), <<>>)}

\* a good row, then a row with every price text
GrillasDePrecio ==
  {Grilla(SubSeq(EtiquetasEnteras, 1, 3),
          << <<<<"a", "1">>, <<"a", "b", "a", "b">>, <<"1", ",", "5">>>>,
             <<<<"1", "0">>, <<"a", "b", " ", "b", "a">>, p>> >>) :
     p \in TextosPrecio}

\* grids of four columns: integer codes of two digits, a text, an empty
\* column (read as "" or "nan"), prices with a decimal comma
FilasDeEscenario ==
  { <<<<"1", "0">>, <<"a", "b", "a", "b">>, <<>>, <<"1", ",", "5">>>>,
    <<<<"1", "1">>, <<"a", "b", " ", "b", "a">>, NAN, <<"0", ",", "1">>>>,
    <<<<"1", "0">>, <<"b", "a", "b", "a">>, NAN, <<"1", "0", ",", "0", "1">>>> }

GrillasDeEscenario ==
  {Grilla(EtiquetasEnteras, filas) :
     filas \in UNION {[1..k -> FilasDeEscenario] : k \in 1..MaxFilasGrilla}}

\* the numbers of rows of the long grids: around the sizes where the step
\* of the sampling changes
LargosDeMuestreo == {1, 199, 200, 201, 300, 399, 400, MaxFilasMuestreo}

\* long grids: the same row of (code, product, price) that many times
GrillasDeMuestreo ==
  {Grilla(SubSeq(EtiquetasEnteras, 1, 3),
          [i \in 1..n |-> <<<<"a", "1">>, <<"a", "b", "a", "b">>, <<"1", ",", "5">>>>]) :
     n \in LargosDeMuestreo}

\* companion mappings: indices in range, too large, negative, too negative
MapeosManuales ==
  {SinMapeo}
  \cup {Mapeo(skip, prod, precio, cod) :
          skip \in {0, 1}, prod \in {0 - 4, 0 - 1, 0, 1, 3},
          precio \in {0, 1, 2, 3}, cod \in {0 - 1, 0}}

InitInferencia ==
  /\ InitSinInferencia(DocAusente, DirectorioVacio)
  /\ SinPdfNiApp
  /\ \/ grilla \in GrillasDeForma /\ mapeo_manual \in MapeosManuales
     \/ grilla \in GrillasDePrecio /\ mapeo_manual \in {SinMapeo, Mapeo(0, 1, 2, 0)}
     \/ grilla \in GrillasDeEscenario /\ mapeo_manual \in {SinMapeo, Mapeo(0, 1, 3, 0)}
     \/ grilla \in GrillasDeMuestreo /\ mapeo_manual = SinMapeo
  /\ tabla = SinTabla
  /\ indices_muestra = <<>>

\* the call: the grid of one file and its companion mapping go in, the
\* table (or the exception) comes out
InferirEsquema ==
  /\ tabla = SinTabla
  /\ tabla' = procesar_dataframe_inteligente(grilla, mapeo_manual)
  /\ indices_muestra' = IF LlegaAlMuestreo(grilla, mapeo_manual)
                         THEN IndicesMuestra(Len(grilla.filas))
                         ELSE <<>>
  /\ UNCHANGED <<vars_config, proveedores, vars_lite, vars_llamada, vars_ingesta,
                 vars_historia, vars_pdf, vars_app, vars_companero, grilla, mapeo_manual>>

NextInferencia == InferirEsquema

SpecInferencia == InitInferencia /\ [][NextInferencia]_vars


\* the call has returned or raised
Inferido == tabla # SinTabla

\* a price text of the enumerated characters that writes no positive
\* number: no digit other than 0, or a leading minus sign
SinValorPositivo(p) == (\A i \in 1..Len(p) : p[i] # "1") \/ (p # <<>> /\ p[1] = "-")

\* C13: every row of a table the inference returns has a cost greater than
\* zero and a product that is trimmed and longer than one character; a row
\* whose price cell is zero, negative or not a number is dropped, so it
\* reaches neither the catalog nor a search result.
C13_FilasLimpias ==
  (Inferido /\ tabla.estado = "tabla") =>
    /\ \A i \in 1..Len(tabla.filas) :
         /\ tabla.filas[i].PrecioCosto.num > 0
         /\ tabla.filas[i].PrecioCosto.den > 0
         /\ Len(tabla.filas[i].Producto) > 1
         /\ tabla.filas[i].Producto = Strip(tabla.filas[i].Producto)
    /\ Len(tabla.filas) <= Len(grilla.filas)
    /\ (grilla \in GrillasDePrecio /\ SinValorPositivo(grilla.filas[2][3])) =>
         Len(tabla.filas) <= 1

\* a grid whose second row has the price "0" gave a table with the first
\* row only
C13_Witness ==
  /\ Inferido
  /\ grilla \in GrillasDePrecio
  /\ grilla.filas[2][3] = <<"0">>
  /\ tabla.estado = "tabla"
  /\ Len(tabla.filas) = 1
  /\ tabla.filas[1].PrecioCosto = [num |-> 15, den |-> 10]

\* the manual mode ran: there is a mapping, the grid has rows and is not
\* one an extractor already named
ModoManualCorrio ==
  /\ Inferido
  /\ mapeo_manual.hay
  /\ grilla.filas # <<>>
  /\ ~(Columna(grilla.columnas, "Producto") # 0
         /\ Columna(grilla.columnas, "Precio de Costo") # 0)

\* C14: with a mapping whose product or price index is out of range for the
\* grid, the result is what the automatic mode yields for that grid.
C14_FueraDeRangoCaeAlAutomatico ==
  (/\ ModoManualCorrio
   /\ \/ ~IndiceValido(Len(grilla.columnas), mapeo_manual.col_producto)
      \/ ~IndiceValido(Len(grilla.columnas), mapeo_manual.col_precio))
    => tabla = procesar_dataframe_inteligente(grilla, SinMapeo)

\* C17: a grid of fewer than two columns always gives the empty table, with
\* or without a mapping.
C17_MenosDeDosColumnas ==
  (Inferido /\ Len(grilla.columnas) < 2) => tabla = TablaVacia


\* the rows of the table that came from the second row of a price grid
FilasDelPrecio ==
  SelectSeq(tabla.filas, LAMBDA r : r.Producto = <<"a", "b", " ", "b", "a">>)

\* a price grid went through the manual mode with the price column mapped
PrecioLimpiado ==
  /\ Inferido
  /\ grilla \in GrillasDePrecio
  /\ mapeo_manual = Mapeo(0, 1, 2, 0)

\* a price text of digits with one "." in it
SoloUnPunto(p) ==
  /\ \A i \in 1..Len(p) : p[i] \in Digitos \cup {"."}
  /\ Cardinality({i \in 1..Len(p) : p[i] = "."}) = 1

\* The reading the rule gives a text of digits and one ".": the "." is a
\* thousand separator when exactly three digits follow it and a digit
\* group precedes it, and the decimal separator otherwise.
LecturaConPunto(p) ==
  LET punto == CHOOSE i \in 1..Len(p) : p[i] = "."
      miles == Len(p) - punto = 3 /\ punto > 1
  IN  [num |-> NumeroDe(SelectSeq(p, LAMBDA c : c # ".")),
       den |-> IF miles THEN 1 ELSE 10 ^ (Len(p) - punto)]

\* C21: a price with "." and no "," is read with "." as the thousand
\* separator exactly when three digits follow the last "." and a digit
\* group precedes it, and as a decimal otherwise.
C21_PuntoDeMiles ==
  (PrecioLimpiado /\ SoloUnPunto(grilla.filas[2][3])) =>
    LET esperado == LecturaConPunto(grilla.filas[2][3])
    IN  IF esperado.num = 0 THEN FilasDelPrecio = <<>>
        ELSE /\ Len(FilasDelPrecio) = 1
             /\ FilasDelPrecio[1].PrecioCosto.num * esperado.den
                  = esperado.num * FilasDelPrecio[1].PrecioCosto.den


\* the automatic mode ran on a grid of three columns or more
AutomaticoGeneral ==
  /\ Inferido
  /\ ~mapeo_manual.hay
  /\ grilla.filas # <<>>
  /\ Len(grilla.columnas) >= 3
  /\ ~(Columna(grilla.columnas, "Producto") # 0
         /\ Columna(grilla.columnas, "Precio de Costo") # 0)

\* the table with code = column 0, product = column 1, price = column 3 of
\* a grid of four columns whose rows all pass the cleanup
TablaDelEscenario ==
  [estado |-> "tabla",
   filas |-> [i \in 1..Len(grilla.filas) |->
                [Codigo |-> Strip(grilla.filas[i][1]),
                 Producto |-> Strip(grilla.filas[i][2]),
                 PrecioCosto |-> [num |-> LimpiarPrecio(grilla.filas[i][4]).num,
                                  den |-> LimpiarPrecio(grilla.filas[i][4]).den]]]]

\* C23: on a grid of three columns or more, no column with a numeric score
\* above 0.10 gives the empty result; and on the grid with integer codes in
\* column 0, text in column 1, nothing in column 2 and decimal prices in
\* column 3, the decimals tie-break makes column 3 the price, column 1 the
\* product and column 0 the code.
C23_SeleccionDePrecio ==
  AutomaticoGeneral =>
    /\ (\A c \in 1..Len(grilla.columnas) : ~PrecioMayor(Conteos(grilla.filas, c), 1, 10))
         => tabla = TablaVacia
    /\ grilla \in GrillasDeEscenario => tabla = TablaDelEscenario


\* idx is one of 0 .. number of columns - 1
EnRango(idx) == 0 <= idx /\ idx <= Len(grilla.columnas) - 1

\* what an invalid mapping may give: no rows (rejected, or the exception),
\* or the result of the automatic mode on the grid, before or after the skip
ResultadosSinMapeo ==
  {TablaVacia, Excepcion, procesar_dataframe_inteligente(grilla, SinMapeo),
   procesar_dataframe_inteligente(SaltarFilas(grilla, mapeo_manual.skip_rows), SinMapeo)}

\* C24: the manual mode goes on to the final cleanup only when the product
\* index and the price index are both within 0 .. columns - 1; a missing,
\* negative or too large index never selects a column.
C24_IndicesValidados ==
  (/\ ModoManualCorrio
   /\ ~EnRango(mapeo_manual.col_producto) \/ ~EnRango(mapeo_manual.col_precio))
    => tabla \in ResultadosSinMapeo


\* C25: the automatic mode scores the columns over a sample of at most 200
\* rows, taken from row 0 at a uniform stride, whatever the number of rows.
C25_MuestraDe200 ==
  (Inferido /\ LlegaAlMuestreo(grilla, mapeo_manual)) =>
    /\ Len(indices_muestra) >= 1
    /\ Len(indices_muestra) <= 200
    /\ indices_muestra[1] = 0
    /\ \A k \in 1..(Len(indices_muestra) - 1) :
         /\ indices_muestra[k + 1] - indices_muestra[k]
              = indices_muestra[2] - indices_muestra[1]
         /\ indices_muestra[k + 1] > indices_muestra[k]


(***************************************************************************)
(* One call of _leer_pdf on a document of one or two pages.                *)
(***************************************************************************)
\* rows of five cells: a product, a header, a row whose only keyword sits
\* next to empty cells, a blank row and a section title
FilasDeTabla ==
  { <<<<"a", "1">>, <<"a", "b", "a", "b">>, <<"1", ",", "5">>, <<>>, <<"N", "o", "n", "e">>>>,
    <<<<"C", "o", "d">>, <<"r", "e", "f">>, <<"a", "r", "t">>, <<"N", "o", "n", "e">>, <<"N", "o", "n", "e">>>>,
    <<<<"c", "o", "d">>, <<"a", "b">>, <<"N", "o", "n", "e">>, <<"N", "o", "n", "e">>, <<"N", "o", "n", "e">>>>,
    <<<<>>, <<"N", "o", "n", "e">>, <<"n", "a", "n">>, <<>>, <<>>>>,
    <<<<"a", "b", "a", "b">>, <<"N", "o", "n", "e">>, <<>>, <<>>, <<"N", "o", "n", "e">>>> }

AnchosDeTabla == {2, 5}

Recortar(fila, ancho) == SubSeq(fila, 1, ancho)

\* the tables: up to MaxFilasTabla rows, cut to one of the widths, and a
\* table of one column
Tablas ==
  UNION { { [i \in 1..n |-> Recortar(f[i], ancho)] : f \in [1..n -> FilasDeTabla] } :
          n \in 1..MaxFilasTabla, ancho \in AnchosDeTabla }
    \cup { <<<<<<"a", "b", "a", "b">>>>>> }

\* lines of text: a product with code, one priced "0", one without code
\* whose description holds a keyword, one without code, one that matches
\* no pattern
LineasBase ==
  { Linea("producto", <<"a", "1">>, <<" ", "a", "b", "a", "b", " ">>, <<"1", ",", "5">>),
    Linea("producto", <<"a", "1">>, <<" ", "a", "b", "a", "b", " ">>, <<"0">>),
    Linea("sin_codigo", <<>>, <<"a", "b", " ", "c", "o", "d">>, <<"1", ",", "5">>),
    Linea("sin_codigo", <<>>, <<"a", "b", "a", "b", "a">>, <<"1", ",", "5">>),
    Linea("ninguno", <<>>, <<>>, <<>>) }

TextosDePagina ==
  UNION { [1..n -> LineasBase] : n \in 0..MaxLineas }

TablaAncha == <<<<<<"a", "1">>, <<"a", "b", "a", "b">>, <<"1", ",", "5">>, <<>>, <<"N", "o", "n", "e">>>>, <<<<"a", "1">>, <<"a", "b", "a", "b">>, <<"1", ",", "5">>, <<>>, <<"N", "o", "n", "e">>>>>>

\* first pages: one ruled table; a wide ruled table and another one; no
\* ruled table and one found by the text strategy
PrimerasPaginas ==
  { Pagina(<<t>>, <<>>, l) : t \in Tablas, l \in TextosDePagina }
    \cup { Pagina(<<TablaAncha, t>>, <<>>, <<>>) : t \in Tablas }
    \cup { Pagina(<<>>, <<t>>, <<>>) : t \in Tablas }

\* second pages: a table of the text strategy and a line of a product
SegundasPaginas ==
  { Pagina(<<>>, <<<<Recortar(<<<<"a", "1">>, <<"a", "b", "a", "b">>, <<"1", ",", "5">>, <<>>, <<"N", "o", "n", "e">>>>, 2)>>>>, <<Linea("numerico", <<"1", "0">>, <<"a", "b">>, <<"1", ",", "5">>)>>),
    Pagina(<<>>, <<>>, <<>>) }

Pdfs ==
  { PdfNulo }
    \cup { Pdf(TRUE, <<p1>>) : p1 \in PrimerasPaginas }
    \cup { Pdf(TRUE, <<Pagina(<<t>>, <<>>, <<l>>), p2>>) :
             t \in Tablas, l \in LineasBase, p2 \in SegundasPaginas }

InitPdf ==
  /\ InitSinInferencia(DocAusente, DirectorioVacio)
  /\ SinApp
  /\ SinCompaneros
  /\ grilla = GrillaNula
  /\ mapeo_manual = SinMapeo
  /\ tabla = SinTabla
  /\ indices_muestra = <<>>
  /\ pdf \in Pdfs
  /\ lectura = SinLectura

\* the call: the document goes in, the frame comes out
LeerPdf ==
  /\ lectura.estado = "pendiente"
  /\ lectura' = leer_pdf(pdf)
  /\ UNCHANGED <<vars_config, proveedores, vars_lite, vars_llamada, vars_ingesta,
                 vars_historia, vars_inferencia, vars_app, vars_companero, pdf>>

NextPdf == LeerPdf

SpecPdf == InitPdf /\ [][NextPdf]_vars


\* the rows of the accepted tables, in order
RECURSIVE FilasDeTablas(_)
FilasDeTablas(dfs) ==
  IF dfs = <<>> THEN <<>> ELSE dfs[1] \o FilasDeTablas(Tail(dfs))

FilasTotales == lectura.df_total.filas

MitadSonKeywords(fila) ==
  LET con_contenido == SelectSeq(fila, ConContenido)
      hits == Len(SelectSeq(con_contenido, LAMBDA v : TieneKeyword(Lower(Strip(v)))))
  IN  con_contenido # <<>> /\ hits * 2 >= Len(con_contenido)

\* C26: no accepted table keeps a row in which at least half of the cells
\* that are not empty, "None" or "nan" hold a header keyword, wherever the
\* row stands in its table.
C26_EncabezadosEliminados ==
  lectura.estado = "leido" =>
    \A k \in 1..Len(lectura.dfs) : \A i \in 1..Len(lectura.dfs[k]) :
      ~MitadSonKeywords(lectura.dfs[k][i])


\* task i is served, in its cache check, the cache entry of its supplier
SirveCache(i) ==
  /\ i \in 1..Len(trabajos)
  /\ Len(trabajos') = Len(trabajos)
  /\ trabajos[i].pc = "cache"
  /\ trabajos'[i].pc = "listo"
  /\ trabajos'[i].resultado.hay

\* C27: single origin.  A cache entry served for a source file was written
\* by the task that ingested that same file, also when the directory holds
\* several files of one stem.
C27_UnSoloOrigen ==
  [][\A i \in 1..Len(trabajos) :
       SirveCache(i) => cache[Stem(trabajos[i].archivo)].origen = trabajos[i].archivo]_vars


(***************************************************************************)
(* Ingestion next to companion mappings: the files stay as they are and    *)
(* the environment creates, changes and removes <source>.json.             *)
(***************************************************************************)
\* the skip_rows of the companions; 0 stands for no companion
SaltosDeCompanero == {0, 1}

\* two suppliers, one file each
DirectorioDeCompaneros ==
  [f \in ConjuntoArchivos |->
     IF f = "Ba.csv" THEN Archivo(TRUE, 0, TRUE, 2)
     ELSE IF f = "bb.csv" THEN Archivo(TRUE, 0, TRUE, 1)
     ELSE ArchivoAusente]

InitCompanero ==
  /\ InitSinInferencia(DocDescuentos, DirectorioDeCompaneros)
  /\ SinPdf
  /\ SinApp
  /\ grilla = GrillaNula
  /\ mapeo_manual = SinMapeo
  /\ tabla = SinTabla
  /\ indices_muestra = <<>>
  /\ companeros \in [ConjuntoArchivos -> SaltosDeCompanero]
  /\ \A f \in ConjuntoArchivos : ~directorio[f].existe => companeros[f] = 0

\* <f>.json is written or removed; the source file is not touched
EditarCompanero(f, skip) ==
  /\ cambios < MaxCambios
  /\ directorio[f].existe
  /\ companeros[f] # skip
  /\ cambios' = cambios + 1
  /\ companeros' = [companeros EXCEPT ![f] = skip]
  /\ estable' = Perturbado
  /\ UNCHANGED <<vars_config, proveedores, vars_lite, vars_inferencia, vars_pdf, vars_app,
                 vars_llamada, vars_ingesta, parseados, reescritos, validos_previos,
                 catalogo_previo, actualizaciones, verificar>>

NextCompanero ==
  \/ Construir
  \/ Recargar
  \/ \E i \in 1..Len(NombresArchivos) : RevisarCache(i)
  \/ \E i \in 1..Len(NombresArchivos), como \in Escrituras, avance \in {0, 1} :
       Procesar(i, como, avance)
  \/ Unir
  \/ \E f \in ConjuntoArchivos, skip \in SaltosDeCompanero : EditarCompanero(f, skip)

SpecCompanero == InitCompanero /\ [][NextCompanero]_vars

\* C28: a companion mapping takes effect on the next reload.  With the
\* source files unchanged, the table a task takes from the cache is the one
\* inference gives for the file under the companion mapping as it stands.
C28_CompaneroVigente ==
  [][\A i \in 1..Len(trabajos) :
       SirveCache(i) => trabajos'[i].resultado.filas = Inferir(trabajos[i].archivo)]_vars


\* a call of actualizar_margen ends with the exception of a failed write
ActualizacionFallida ==
  /\ actualizaciones' = actualizaciones + 1
  /\ ultimo'.op = "actualizar"
  /\ ~ultimo'.ok

\* C29: when persisting fails inside actualizar_margen, the exception
\* reaches the caller and the per-supplier configuration in memory is the
\* one from before the call.
C29_FalloSinCambioEnMemoria ==
  [][ActualizacionFallida => margenes' = margenes]_vars


(***************************************************************************)
(* FerreteriaMobileApp: the constructor and the handlers of the page, for  *)
(* the threaded program (main.py) and the plain one (main_mobile.py).  The *)
(* working directory is the directory of the scripts.  In main.py the      *)
(* constructor raises before it starts the loader thread, so the thread    *)
(* takes no step.                                                          *)
(***************************************************************************)
\* limite=30 of the call in buscar
LimiteApp == 30

\* MotorMobileLite.__init__ and _cargar_datos: the attributes of a new
\* engine on the files as they are
lite_cargar_datos(base, doc) ==
  LET cfg == LiteCargarMargenes(doc, LiteAtributosIniciales)
  IN  [productos |-> IF base.estado = "ok" THEN base.productos ELSE <<>>,
       margenes |-> cfg.margenes,
       margen_default |-> cfg.margen_default]

\* FerreteriaMobileApp.__init__.  main.py: self.motor = None, then
\* setup_ui_base reads self.motor.productos and raises AttributeError
\* before page.add and before the thread is started.  main_mobile.py: the
\* engine is made first and setup_ui shows its count.
AppConstruir ==
  /\ app_ui = "sin_construir"
  /\ IF app = "main"
     THEN /\ app_motor' = "None"
          /\ app_ui' = "caida"
          /\ app_error' = "AttributeError"
          /\ UNCHANGED <<vars_lite, info_text>>
     ELSE LET nuevo == lite_cargar_datos(base_datos, archivo_margenes)
          IN  /\ app_motor' = "MotorMobileLite"
              /\ productos' = nuevo.productos
              /\ lite_margenes' = nuevo.margenes
              /\ lite_margen_default' = nuevo.margen_default
              /\ app_ui' = "lista"
              /\ info_text' = InfoText("cargados", Len(nuevo.productos))
              /\ UNCHANGED app_error
  /\ UNCHANGED <<vars_config, proveedores, vars_inferencia, vars_pdf, vars_companero,
                 vars_llamada, vars_ingesta, vars_historia, base_datos, app,
                 results_column>>

\* FerreteriaMobileApp.buscar, on_submit of the search field
AppBuscar(texto) ==
  /\ app_ui = "lista"
  /\ LET query == Strip(texto)
     IN  IF query = <<>>
         THEN UNCHANGED <<info_text, results_column, app_error>>
         ELSE IF app_motor = "None"
         THEN /\ app_error' = "AttributeError"
              /\ info_text' = InfoText("buscando", 0)
              /\ results_column' = <<>>
         ELSE LET resultados == LiteResultado(query, LimiteApp)
              IN  /\ results_column' = resultados
                  /\ info_text' = InfoText("encontrados", Len(resultados))
                  /\ UNCHANGED app_error
  /\ UNCHANGED <<vars_config, proveedores, vars_lite, vars_inferencia, vars_pdf,
                 vars_companero, vars_llamada, vars_ingesta, vars_historia,
                 base_datos, app, app_motor, app_ui>>

\* FerreteriaMobileApp.recargar_datos, on_click of the refresh button
AppRecargarDatos ==
  /\ app_ui = "lista"
  /\ LET nuevo == lite_cargar_datos(base_datos, archivo_margenes)
     IN  /\ app_motor' = "MotorMobileLite"
         /\ productos' = nuevo.productos
         /\ lite_margenes' = nuevo.margenes
         /\ lite_margen_default' = nuevo.margen_default
         /\ info_text' = InfoText("recargado", Len(nuevo.productos))
  /\ UNCHANGED <<vars_config, proveedores, vars_inferencia, vars_pdf, vars_companero,
                 vars_llamada, vars_ingesta, vars_historia, base_datos, app, app_ui,
                 results_column, app_error>>

\* base_datos_mobile.json is exported again, damaged or removed
EditarBaseDatos(base) ==
  /\ base_datos # base
  /\ base_datos' = base
  /\ UNCHANGED <<vars_config, proveedores, vars_lite, vars_inferencia, vars_pdf,
                 vars_companero, vars_llamada, vars_ingesta, vars_historia, app,
                 app_motor, app_ui, info_text, results_column, app_error>>

BasesDeDatos ==
  {BaseAusente, BaseDatos("corrupto", <<>>)}
    \cup {BaseDatos("ok", Aplanar(Catalogo(n1, n2))) : n1 \in {0, 1}, n2 \in {0, MaxFilas}}

ConsultasApp == ConsultasCrudas \cup {<<"a">>, <<"b", "b">>}

InitApp ==
  \E doc \in DocumentosBusqueda :
    /\ InitSinInferencia(doc, DirectorioVacio)
    /\ SinPdf
    /\ SinCompaneros
    /\ grilla = GrillaNula
    /\ mapeo_manual = SinMapeo
    /\ tabla = SinTabla
    /\ indices_muestra = <<>>
    /\ base_datos \in BasesDeDatos
    /\ app \in {"main", "main_mobile"}
    /\ app_motor = "None"
    /\ app_ui = "sin_construir"
    /\ info_text = SinInfo
    /\ results_column = <<>>
    /\ app_error = "ninguno"

NextApp ==
  \/ AppConstruir
  \/ \E texto \in ConsultasApp : AppBuscar(texto)
  \/ AppRecargarDatos
  \/ \E base \in BasesDeDatos : EditarBaseDatos(base)

SpecApp == InitApp /\ [][NextApp]_vars

\* C30: in the threaded app no step reads self.motor.productos or calls
\* self.motor.buscar_producto while self.motor is still None.
C30_MotorAsignado ==
  app = "main" => app_error # "AttributeError"

====
